---------------------------- MODULE Spec2Model ----------------------------
(***************************************************************************)
(* A state-machine model of the authentication and authorization core of   *)
(* go-backend-template: the auth-service handlers (Register, Login,        *)
(* AdminRegister, AdminLogin), the JWT gate of the micro-services and of   *)
(* the monolith, the admin-only check, the user-service and admin-service  *)
(* handlers, the monolith's admin and profile handlers, and the field      *)
(* cipher they share.                                                      *)
(*                                                                         *)
(* Strings are sequences of bytes (ASCII codes).  AES-256, SHA-256, CFB    *)
(* mode and base64 are computed as the libraries compute them.  bcrypt and *)
(* HMAC are kept symbolic: a bcrypt digest is the cost, the salt and the   *)
(* 72 bytes that its key schedule reads; an HMAC tag is the secret and the *)
(* message signed.                                                         *)
(***************************************************************************)
EXTENDS Integers, Sequences, FiniteSets, TLC

(***************************************************************************)
(* Bounds of the model.                                                    *)
(***************************************************************************)
\* ObjectIDs that primitive.NewObjectID hands out in one run.
MaxIds == 2
\* Tokens the clients keep for later requests.
MaxTokens == 1
\* Clock ticks taken one at a time after start-up and after a long sleep.
MaxClock == 1
MaxProcs == 2
\* Length of the short plaintexts given to the cipher.
MaxPlainLen == 2
\* Clock ticks per second (time.Now has sub-second resolution).
TicksPerSecond == 2

(***************************************************************************)
(* Program constants.                                                      *)
(***************************************************************************)
\* len(key) != 32
KeyLen == 32
\* aes.BlockSize
BlockSize == 16
\* time.Hour * 24, in seconds
TokenTTLSeconds == 86400
\* bcrypt.DefaultCost
DefaultCost == 10
\* bcrypt reads at most 72 bytes of the password
BcryptMaxLen == 72
\* An ObjectID is 12 bytes, 24 hex digits.
ObjectIDHexLen == 24

StatusOK == 200
StatusBadRequest == 400
StatusUnauthorized == 401
StatusForbidden == 403
StatusNotFound == 404
StatusConflict == 409
StatusInternalServerError == 500

(***************************************************************************)
(* State.                                                                  *)
(***************************************************************************)
VARIABLES
    users,   \* the users collection, in natural order
    nextId,  \* how many ObjectIDs have been generated, plus one
    now,     \* the clock, in ticks
    issued,  \* the tokens that clients hold, each with the time it was issued
    last,    \* the last request served: its operation and status
    pending, \* per connection, the request between two of its store calls
    cipher   \* one use of utils.Encrypt and utils.Decrypt: arguments and results

vars == <<users, nextId, now, issued, last, pending, cipher>>

(***************************************************************************)
(* Bytes and strings.                                                      *)
(***************************************************************************)
Min(a, b) == IF a < b THEN a ELSE b

RECURSIVE XorBits(_, _, _)
XorBits(a, b, n) ==
    IF n = 0 THEN 0
    ELSE (((a % 2) + (b % 2)) % 2) + 2 * XorBits(a \div 2, b \div 2, n - 1)

\* XOR of two bytes, for every pair of bytes.
XorTable == [a \in 0..255 |-> [b \in 0..255 |-> XorBits(a, b, 8)]]

\* XOR of two bytes, as cipher.Stream.XORKeyStream applies it.
Xor(a, b) == XorTable[a][b]

RECURSIVE AndBits(_, _, _)
AndBits(a, b, n) ==
    IF n = 0 THEN 0
    ELSE ((a % 2) * (b % 2)) + 2 * AndBits(a \div 2, b \div 2, n - 1)

\* strings.TrimPrefix and the like work on byte sequences.
HasPrefix(s, p) == Len(s) >= Len(p) /\ SubSeq(s, 1, Len(p)) = p

(***************************************************************************)
(* encoding/base64, StdEncoding (padded).                                  *)
(***************************************************************************)
PadChar == 61

B64Char(i) ==
    IF i < 26 THEN 65 + i
    ELSE IF i < 52 THEN 71 + i
    ELSE IF i < 62 THEN i - 4
    ELSE IF i = 62 THEN 43 ELSE 47

B64Index(c) ==
    IF c >= 65 /\ c <= 90 THEN c - 65
    ELSE IF c >= 97 /\ c <= 122 THEN c - 71
    ELSE IF c >= 48 /\ c <= 57 THEN c + 4
    ELSE IF c = 43 THEN 62
    ELSE IF c = 47 THEN 63 ELSE -1

RECURSIVE Base64Encode(_)
Base64Encode(b) ==
    IF Len(b) = 0 THEN <<>>
    ELSE IF Len(b) = 1 THEN
        <<B64Char(b[1] \div 4), B64Char((b[1] % 4) * 16), PadChar, PadChar>>
    ELSE IF Len(b) = 2 THEN
        <<B64Char(b[1] \div 4), B64Char((b[1] % 4) * 16 + (b[2] \div 16)),
          B64Char((b[2] % 16) * 4), PadChar>>
    ELSE
        <<B64Char(b[1] \div 4), B64Char((b[1] % 4) * 16 + (b[2] \div 16)),
          B64Char((b[2] % 16) * 4 + (b[3] \div 64)), B64Char(b[3] % 64)>>
        \o Base64Encode(SubSeq(b, 4, Len(b)))

\* One quantum of four characters: [ok, bytes].  Padding is legal only in the
\* last quantum, as "xx==" or "xxx=".
B64Quantum(q, final) ==
    LET i1 == B64Index(q[1])
        i2 == B64Index(q[2])
        i3 == B64Index(q[3])
        i4 == B64Index(q[4])
    IN  IF i1 < 0 \/ i2 < 0 THEN [ok |-> FALSE, bytes |-> <<>>]
        ELSE IF q[3] = PadChar THEN
            IF final /\ q[4] = PadChar
            THEN [ok |-> TRUE, bytes |-> <<i1 * 4 + (i2 \div 16)>>]
            ELSE [ok |-> FALSE, bytes |-> <<>>]
        ELSE IF i3 < 0 THEN [ok |-> FALSE, bytes |-> <<>>]
        ELSE IF q[4] = PadChar THEN
            IF final
            THEN [ok |-> TRUE,
                  bytes |-> <<i1 * 4 + (i2 \div 16), (i2 % 16) * 16 + (i3 \div 4)>>]
            ELSE [ok |-> FALSE, bytes |-> <<>>]
        ELSE IF i4 < 0 THEN [ok |-> FALSE, bytes |-> <<>>]
        ELSE [ok |-> TRUE,
              bytes |-> <<i1 * 4 + (i2 \div 16), (i2 % 16) * 16 + (i3 \div 4),
                          (i3 % 4) * 64 + i4>>]

RECURSIVE DecodeQuanta(_)
DecodeQuanta(s) ==
    IF Len(s) = 0 THEN [ok |-> TRUE, bytes |-> <<>>]
    ELSE IF Len(s) < 4 THEN [ok |-> FALSE, bytes |-> <<>>]
    ELSE LET q == B64Quantum(SubSeq(s, 1, 4), Len(s) = 4)
             r == DecodeQuanta(SubSeq(s, 5, Len(s)))
         IN  IF q.ok /\ r.ok
             THEN [ok |-> TRUE, bytes |-> q.bytes \o r.bytes]
             ELSE [ok |-> FALSE, bytes |-> <<>>]

\* The decoder skips carriage returns and line feeds.
NotNewline(c) == c # 10 /\ c # 13

\* base64.StdEncoding.DecodeString(s)
Base64Decode(s) == DecodeQuanta(SelectSeq(s, NotNewline))

(***************************************************************************)
(* Configuration: the encryption keys that config.Load returns with the    *)
(* environment unset, and the IVs that rand.Reader fills in.               *)
(***************************************************************************)
\* "your-32-byte-encryption-key-here"
SharedEncryptionKey ==
    <<121, 111, 117, 114, 45, 51, 50, 45, 98, 121, 116, 101, 45, 101, 110, 99,
      114, 121, 112, 116, 105, 111, 110, 45, 107, 101, 121, 45, 104, 101, 114,
      101>>

\* "12345678901234567890123456789012"
MonolithEncryptionKey ==
    <<49, 50, 51, 52, 53, 54, 55, 56, 57, 48, 49, 50, 51, 52, 53, 54, 55, 56, 57,
      48, 49, 50, 51, 52, 53, 54, 55, 56, 57, 48, 49, 50>>

\* What rand.Reader fills the IV with, in the services' runs.
IVs == {[i \in 1..BlockSize |-> 0]}

\* What rand.Reader fills the IV with, where the cipher runs on its own.
CipherIVs == IVs \cup {[i \in 1..BlockSize |-> (17 * i) % 256]}

(***************************************************************************)
(* crypto/aes: AES-256 (FIPS-197), one block at a time.  The state and the *)
(* round keys are byte sequences in column order.                          *)
(***************************************************************************)
\* crypto/aes: sbox0, the FIPS-197 substitution box.
SBox ==
    <<99, 124, 119, 123, 242, 107, 111, 197, 48, 1, 103, 43, 254, 215, 171, 118,
      202, 130, 201, 125, 250, 89, 71, 240, 173, 212, 162, 175, 156, 164, 114, 192,
      183, 253, 147, 38, 54, 63, 247, 204, 52, 165, 229, 241, 113, 216, 49, 21,
      4, 199, 35, 195, 24, 150, 5, 154, 7, 18, 128, 226, 235, 39, 178, 117,
      9, 131, 44, 26, 27, 110, 90, 160, 82, 59, 214, 179, 41, 227, 47, 132,
      83, 209, 0, 237, 32, 252, 177, 91, 106, 203, 190, 57, 74, 76, 88, 207,
      208, 239, 170, 251, 67, 77, 51, 133, 69, 249, 2, 127, 80, 60, 159, 168,
      81, 163, 64, 143, 146, 157, 56, 245, 188, 182, 218, 33, 16, 255, 243, 210,
      205, 12, 19, 236, 95, 151, 68, 23, 196, 167, 126, 61, 100, 93, 25, 115,
      96, 129, 79, 220, 34, 42, 144, 136, 70, 238, 184, 20, 222, 94, 11, 219,
      224, 50, 58, 10, 73, 6, 36, 92, 194, 211, 172, 98, 145, 149, 228, 121,
      231, 200, 55, 109, 141, 213, 78, 169, 108, 86, 244, 234, 101, 122, 174, 8,
      186, 120, 37, 46, 28, 166, 180, 198, 232, 221, 116, 31, 75, 189, 139, 138,
      112, 62, 181, 102, 72, 3, 246, 14, 97, 53, 87, 185, 134, 193, 29, 158,
      225, 248, 152, 17, 105, 217, 142, 148, 155, 30, 135, 233, 206, 85, 40, 223,
      140, 161, 137, 13, 191, 230, 66, 104, 65, 153, 45, 15, 176, 84, 187, 22>>

\* Multiplication by x (02) and by x + 1 (03) in GF(2^8), modulo
\* x^8 + x^4 + x^3 + x + 1.
Mul2 == [a \in 0..255 |-> IF a < 128 THEN 2 * a ELSE Xor(2 * a - 256, 27)]
Mul3 == [a \in 0..255 |-> Xor(Mul2[a], a)]

\* The round constants of the key expansion: powers of x.
Rcon == <<1, 2, 4, 8, 16, 32, 64>>

\* aes.NewCipher(key) for a 32-byte key: the 15 round keys, 240 bytes, each
\* word the XOR of the word eight back and the (transformed) word before.
RECURSIVE ExpandKey(_)
ExpandKey(w) ==
    IF Len(w) >= 15 * BlockSize THEN w
    ELSE LET i == Len(w) \div 4
             t == SubSeq(w, Len(w) - 3, Len(w))
             u == IF i % 8 = 0
                  THEN <<Xor(SBox[t[2] + 1], Rcon[i \div 8]), SBox[t[3] + 1],
                         SBox[t[4] + 1], SBox[t[1] + 1]>>
                  ELSE IF i % 8 = 4
                  THEN [j \in 1..4 |-> SBox[t[j] + 1]]
                  ELSE t
         IN  ExpandKey(w \o [j \in 1..4 |-> Xor(w[Len(w) - KeyLen + j], u[j])])

\* SubBytes and ShiftRows: byte i of the state sits in row (i - 1) % 4 and
\* column (i - 1) \div 4; row r is rotated left by r columns.
SubShift(s) ==
    <<>> \o [i \in 1..BlockSize |->
        SBox[s[((i - 1) % 4) + 4 * ((((i - 1) \div 4) + ((i - 1) % 4)) % 4) + 1] + 1]]

\* MixColumns: each column multiplied by the matrix 02 03 01 01.
MixColumns(s) ==
    <<>> \o [i \in 1..BlockSize |->
        LET c == 4 * ((i - 1) \div 4)
            r == (i - 1) % 4
        IN  Xor(Xor(Mul2[s[c + r + 1]], Mul3[s[c + ((r + 1) % 4) + 1]]),
                Xor(s[c + ((r + 2) % 4) + 1], s[c + ((r + 3) % 4) + 1]))]

AddRoundKey(s, w, r) == <<>> \o [i \in 1..BlockSize |-> Xor(s[i], w[BlockSize * r + i])]

\* The rounds from r on, on the state s with round keys w.
RECURSIVE Rounds(_, _, _)
Rounds(s, w, r) ==
    IF Len(s) # BlockSize THEN s
    ELSE IF r = 14 THEN AddRoundKey(SubShift(s), w, r)
    ELSE Rounds(AddRoundKey(MixColumns(SubShift(s)), w, r), w, r + 1)

\* cipher.Block.Encrypt of one block under the round keys w.
EncryptBlock(w, block) == Rounds(AddRoundKey(block, w, 0), w, 1)

\* The round keys of the configured keys, expanded once.
ExpandedKeys ==
    [k \in {SharedEncryptionKey, MonolithEncryptionKey} |-> ExpandKey(k)]

\* The first key-stream block under each configured key, for each IV,
\* encrypted once.
KeyStreams ==
    [k \in DOMAIN ExpandedKeys |->
        [iv \in CipherIVs |-> EncryptBlock(ExpandedKeys[k], iv)]]

(***************************************************************************)
(* utils/encryption.go: AES in CFB mode, IV prepended, base64 framed.      *)
(***************************************************************************)
\* aes.NewCipher(key) and then block.Encrypt(dst, block), as the CFB stream
\* calls it, for a 32-byte key.
AESBlock(key, block) ==
    IF key \in DOMAIN KeyStreams /\ block \in CipherIVs
    THEN KeyStreams[key][block]
    ELSE IF key \in DOMAIN ExpandedKeys
    THEN EncryptBlock(ExpandedKeys[key], block)
    ELSE EncryptBlock(ExpandKey(key), block)

\* cipher.NewCFBEncrypter(block, iv).XORKeyStream: each block's key stream is
\* the encryption of the previous ciphertext block (the IV for the first).
RECURSIVE CFBEncrypt(_, _, _)
CFBEncrypt(key, prev, plain) ==
    IF Len(plain) = 0 THEN <<>>
    ELSE LET ks == AESBlock(key, prev)
             n == Min(Len(plain), BlockSize)
             c == [i \in 1..n |-> Xor(plain[i], ks[i])]
         IN  IF Len(plain) > BlockSize
             THEN c \o CFBEncrypt(key, c, SubSeq(plain, BlockSize + 1, Len(plain)))
             ELSE c

\* CFBDecrypt that takes the key stream of every block from the IV.
RECURSIVE CFBDecryptUnchained(_, _, _)
CFBDecryptUnchained(key, prev, ct) ==
    IF Len(ct) = 0 THEN <<>>
    ELSE LET ks == AESBlock(key, prev)
             n == Min(Len(ct), BlockSize)
             p == [i \in 1..n |-> Xor(ct[i], ks[i])]
         IN  IF Len(ct) > BlockSize
             THEN p \o CFBDecryptUnchained(key, prev,
                                           SubSeq(ct, BlockSize + 1, Len(ct)))
             ELSE p

\* cipher.NewCFBDecrypter(block, iv).XORKeyStream.
RECURSIVE CFBDecrypt(_, _, _)
CFBDecrypt(key, prev, ct) ==
    IF Len(ct) = 0 THEN <<>>
    ELSE LET ks == AESBlock(key, prev)
             n == Min(Len(ct), BlockSize)
             p == [i \in 1..n |-> Xor(ct[i], ks[i])]
         IN  IF Len(ct) > BlockSize
             THEN p \o CFBDecrypt(key, SubSeq(ct, 1, BlockSize),
                                  SubSeq(ct, BlockSize + 1, Len(ct)))
             ELSE p

\* Encrypt(plainText, key); iv is what rand.Reader filled in.
Encrypt(plainText, key, iv) ==
    IF Len(key) # KeyLen THEN [err |-> TRUE, out |-> <<>>]
    ELSE [err |-> FALSE,
          out |-> Base64Encode(iv \o CFBEncrypt(key, iv, plainText))]

\* Decrypt that turns away only keys shorter than 32 bytes.
DecryptKeyAtLeast(encryptedText, key) ==
    IF Len(key) < KeyLen THEN [err |-> TRUE, out |-> <<>>]
    ELSE LET d == Base64Decode(encryptedText)
         IN  IF ~d.ok THEN [err |-> TRUE, out |-> <<>>]
             ELSE IF Len(d.bytes) < BlockSize THEN [err |-> TRUE, out |-> <<>>]
             ELSE [err |-> FALSE,
                   out |-> CFBDecrypt(key, SubSeq(d.bytes, 1, BlockSize),
                                      SubSeq(d.bytes, BlockSize + 1, Len(d.bytes)))]

\* Decrypt that also turns away a ciphertext of exactly one block.
DecryptStrictlyLonger(encryptedText, key) ==
    IF Len(key) # KeyLen THEN [err |-> TRUE, out |-> <<>>]
    ELSE LET d == Base64Decode(encryptedText)
         IN  IF ~d.ok THEN [err |-> TRUE, out |-> <<>>]
             ELSE IF Len(d.bytes) <= BlockSize THEN [err |-> TRUE, out |-> <<>>]
             ELSE [err |-> FALSE,
                   out |-> CFBDecrypt(key, SubSeq(d.bytes, 1, BlockSize),
                                      SubSeq(d.bytes, BlockSize + 1, Len(d.bytes)))]

\* Decrypt(encryptedText, key).
Decrypt(encryptedText, key) ==
    IF Len(key) # KeyLen THEN [err |-> TRUE, out |-> <<>>]
    ELSE LET d == Base64Decode(encryptedText)
         IN  IF ~d.ok THEN [err |-> TRUE, out |-> <<>>]
             ELSE IF Len(d.bytes) < BlockSize THEN [err |-> TRUE, out |-> <<>>]
             ELSE [err |-> FALSE,
                   out |-> CFBDecrypt(key, SubSeq(d.bytes, 1, BlockSize),
                                      SubSeq(d.bytes, BlockSize + 1, Len(d.bytes)))]

(***************************************************************************)
(* golang.org/x/crypto/bcrypt, as the handlers call it.                    *)
(***************************************************************************)
\* What bcrypt's key schedule reads: the password with a NUL byte after it,
\* over and over, 72 bytes in all (18 words of the Blowfish P-array).
BcryptKey(password) ==
    [i \in 1..BcryptMaxLen |->
        (password \o <<0>>)[((i - 1) % (Len(password) + 1)) + 1]]

\* bcrypt.GenerateFromPassword(password, cost) with the salt it drew: the hash
\* string carries the cost, the salt and a digest of salt and password.
GenerateFromPassword(password, cost, salt) ==
    IF Len(password) > BcryptMaxLen
    THEN [err |-> TRUE, hash |-> [cost |-> 0, salt |-> 0, digest |-> <<>>]]
    ELSE [err |-> FALSE,
          hash |-> [cost |-> cost, salt |-> salt,
                    digest |-> <<"bcrypt", cost, salt, BcryptKey(password)>>]]

\* bcrypt.CompareHashAndPassword(hash, password) = nil
CompareHashAndPassword(hash, password) ==
    hash.digest = <<"bcrypt", hash.cost, hash.salt, BcryptKey(password)>>

(***************************************************************************)
(* bson/primitive ObjectID: 12 bytes, written as 24 hex digits.            *)
(***************************************************************************)
ObjectIDLen == ObjectIDHexLen \div 2

\* primitive.NewObjectID(): the n-th identifier generated, distinct for each n.
NewObjectID(n) == [i \in 1..ObjectIDLen |-> IF i = ObjectIDLen THEN n ELSE 0]

HexDigit(d) == IF d < 10 THEN 48 + d ELSE 87 + d

HexValue(c) ==
    IF c >= 48 /\ c <= 57 THEN c - 48
    ELSE IF c >= 97 /\ c <= 102 THEN c - 87
    ELSE IF c >= 65 /\ c <= 70 THEN c - 55 ELSE -1

\* ObjectID.Hex()
Hex(id) ==
    [i \in 1..(2 * Len(id)) |->
        IF i % 2 = 1 THEN HexDigit(id[(i + 1) \div 2] \div 16)
        ELSE HexDigit(id[i \div 2] % 16)]

\* primitive.ObjectIDFromHex(s)
ObjectIDFromHex(s) ==
    IF Len(s) # ObjectIDHexLen \/ \E i \in 1..Len(s) : HexValue(s[i]) < 0
    THEN [err |-> TRUE, id |-> <<>>]
    ELSE [err |-> FALSE,
          id |-> [i \in 1..ObjectIDLen |->
                     HexValue(s[2 * i - 1]) * 16 + HexValue(s[2 * i])]]

(***************************************************************************)
(* Configuration (config.Load with the environment unset).                 *)
(***************************************************************************)
\* microservices/shared/config: Load()
Cfg == [JWTSecret |-> "your-secret-key", EncryptionKey |-> SharedEncryptionKey]

(***************************************************************************)
(* The clock.  now counts ticks; time.Time.Unix() drops the sub-second     *)
(* part.                                                                   *)
(***************************************************************************)
Unix(t) == t \div TicksPerSecond

TokenTTL == TokenTTLSeconds * TicksPerSecond

(***************************************************************************)
(* github.com/golang-jwt/jwt/v4: HS256 tokens with MapClaims.              *)
(***************************************************************************)
NoClaims == [userID |-> <<>>, email |-> <<>>, role |-> "", exp |-> 0]
NoSig == [key |-> "", msg |-> NoClaims]

\* HMAC-SHA256 of the signing string under a secret: equal tags exactly for
\* equal secrets and equal claims.
HS256Sign(secret, claims) == [key |-> secret, msg |-> claims]

\* A token string.  kind "jwt" is header.claims.signature; "empty" is the
\* empty string; "garbage" is a string that is not three segments.
EmptyToken == [kind |-> "empty", alg |-> "", claims |-> NoClaims, sig |-> NoSig]
GarbageToken == [kind |-> "garbage", alg |-> "", claims |-> NoClaims, sig |-> NoSig]

\* jwt.NewWithClaims(jwt.SigningMethodHS256, claims).SignedString(secret)
SignedString(claims, secret) ==
    [kind |-> "jwt", alg |-> "HS256", claims |-> claims,
     sig |-> HS256Sign(secret, claims)]

\* MapClaims.Valid(): verifyExp is now.Before(exp), both in whole seconds.
ClaimsValid(claims, t) == Unix(t) < claims.exp

\* jwt.Parse(tokenString, keyFunc) with keyFunc returning []byte(secret):
\* err == nil and token.Valid.
ParseValid(tokenString, secret, t) ==
    /\ tokenString.kind = "jwt"
    /\ tokenString.alg = "HS256"
    /\ tokenString.sig = HS256Sign(secret, tokenString.claims)
    /\ ClaimsValid(tokenString.claims, t)

(***************************************************************************)
(* The users collection: documents in natural (insertion) order.           *)
(***************************************************************************)
\* collection.FindOne(bson.M{"email_hash": key}): index of the first match, 0
\* for mongo.ErrNoDocuments.
RECURSIVE FindFrom(_, _, _)
FindFrom(us, key, i) ==
    IF i > Len(us) THEN 0
    ELSE IF us[i].email_hash = key THEN i
    ELSE FindFrom(us, key, i + 1)

FindOneByEmailHash(us, key) == FindFrom(us, key, 1)

\* collection.FindOne(bson.M{"_id": id})
RECURSIVE FindIdFrom(_, _, _)
FindIdFrom(us, id, i) ==
    IF i > Len(us) THEN 0
    ELSE IF us[i].id = id THEN i
    ELSE FindIdFrom(us, id, i + 1)

FindOneById(us, id) == FindIdFrom(us, id, 1)

\* models.User
\* NewUser with the ciphertext written where the lookup key belongs.
NewUserKeyedByCiphertext(id, emailHash, email, password, role, t) ==
    [id |-> id, email_hash |-> email, email |-> email, password |-> password,
     role |-> role, created_at |-> t, updated_at |-> t]

NewUser(id, emailHash, email, password, role, t) ==
    [id |-> id, email_hash |-> emailHash, email |-> email, password |-> password,
     role |-> role, created_at |-> t, updated_at |-> t]

(***************************************************************************)
(* Responses.  calls lists the store calls the request made; next tells    *)
(* whether a gate handed the request to the handler behind it.             *)
(***************************************************************************)
NoToken == [kind |-> "none", alg |-> "", claims |-> NoClaims, sig |-> NoSig]

\* The paging fields of the monolith's ListUsersResponse.
NoMeta == [total |-> 0, page |-> 0, limit |-> 0, total_pages |-> 0]

\* http.Error(w, msg, status), and the acknowledgments.
Reply(status, msg, calls) ==
    [status |-> status, msg |-> msg, token |-> NoToken, role |-> "",
     calls |-> calls, data |-> <<>>, meta |-> NoMeta]

\* The body of a successful login.
TokenReply(token, role, calls) ==
    [status |-> StatusOK, msg |-> "", token |-> token, role |-> role,
     calls |-> calls, data |-> <<>>, meta |-> NoMeta]

\* A body that lists users.
DataReply(data, meta, calls) ==
    [status |-> StatusOK, msg |-> "", token |-> NoToken, role |-> "",
     calls |-> calls, data |-> data, meta |-> meta]

\* UserResponse that copies the whole stored record into the body.
UserResponseOfWholeRecord(user, email) ==
    [id |-> Hex(user.id), email |-> email, role |-> user.role,
     created_at |-> user.created_at, updated_at |-> user.updated_at,
     password |-> user.password]

\* models.UserResponse
UserResponse(user, email) ==
    [id |-> Hex(user.id), email |-> email, role |-> user.role,
     created_at |-> user.created_at, updated_at |-> user.updated_at]

(***************************************************************************)
(* auth-service/handlers: Register, Login, AdminRegister, AdminLogin.      *)
(* A request body req has ok (json Decode returned nil), email, password   *)
(* and role; fault names the call that returns an error, if any: a store   *)
(* call (find, insert) or a library call (hash, encrypt, decrypt, sign).   *)
(* Each handler yields the collection it leaves and its response.          *)
(***************************************************************************)
\* RegisterCheck without its "err == nil" branch: the lookup's answer is ignored.
RegisterCheckIgnoringFound(us, req, fault) ==
    IF ~req.ok
    THEN [done |-> TRUE,
          resp |-> Reply(StatusBadRequest, "Invalid request payload", <<>>)]
    ELSE IF fault = "find"
    THEN [done |-> TRUE,
          resp |-> Reply(StatusInternalServerError, "Database error",
                         <<"FindOne">>)]
    ELSE [done |-> FALSE, resp |-> Reply(0, "", <<"FindOne">>)]

\* Register: the existence check.  done means the handler has answered.
RegisterCheck(us, req, fault) ==
    IF ~req.ok
    THEN [done |-> TRUE,
          resp |-> Reply(StatusBadRequest, "Invalid request payload", <<>>)]
    ELSE IF fault = "find"
    THEN [done |-> TRUE,
          resp |-> Reply(StatusInternalServerError, "Database error",
                         <<"FindOne">>)]
    ELSE IF FindOneByEmailHash(us, req.email) # 0
    THEN [done |-> TRUE,
          resp |-> Reply(StatusConflict, "User already exists", <<"FindOne">>)]
    ELSE [done |-> FALSE, resp |-> Reply(0, "", <<"FindOne">>)]

\* Register: "Determine role (default to "user" if not specified or invalid)"
RegisterRole(reqRole) == IF reqRole = "admin" THEN "admin" ELSE "user"

\* RegisterCreate that looks the key up once more before it inserts.
RegisterCreateRechecking(us, t, oid, req, fault, iv, salt) ==
    LET h == GenerateFromPassword(req.password, DefaultCost, salt)
        e == Encrypt(req.email, Cfg.EncryptionKey, iv)
        user == NewUser(oid, req.email, e.out, h.hash,
                        IF req.role = "admin" THEN "admin" ELSE "user", t)
    IN  IF FindOneByEmailHash(us, req.email) # 0
        THEN [users |-> us,
              resp |-> Reply(StatusConflict, "User already exists",
                             <<"FindOne", "FindOne">>)]
        ELSE IF h.err \/ e.err \/ fault = "insert"
        THEN [users |-> us,
              resp |-> Reply(StatusInternalServerError, "Failed to create user",
                             <<"FindOne", "FindOne">>)]
        ELSE [users |-> Append(us, user),
              resp |-> Reply(StatusOK, "User registered successfully",
                             <<"FindOne", "FindOne", "InsertOne">>)]

\* Register: hash, encrypt, build the document and insert it.
RegisterCreate(us, t, oid, req, fault, iv, salt) ==
    LET h == GenerateFromPassword(req.password, DefaultCost, salt)
        e == Encrypt(req.email, Cfg.EncryptionKey, iv)
        user == NewUser(oid, req.email, e.out, h.hash, RegisterRole(req.role), t)
    IN  IF h.err \/ fault = "hash"
        THEN [users |-> us,
              resp |-> Reply(StatusInternalServerError, "Failed to hash password",
                             <<"FindOne">>)]
        ELSE IF e.err \/ fault = "encrypt"
        THEN [users |-> us,
              resp |-> Reply(StatusInternalServerError, "Failed to encrypt data",
                             <<"FindOne">>)]
        ELSE IF fault = "insert"
        THEN [users |-> us,
              resp |-> Reply(StatusInternalServerError, "Failed to create user",
                             <<"FindOne", "InsertOne">>)]
        ELSE [users |-> Append(us, user),
              resp |-> Reply(StatusOK, "User registered successfully",
                             <<"FindOne", "InsertOne">>)]

\* Register when no other request runs between its FindOne and its InsertOne.
Register(us, t, oid, req, fault, iv, salt) ==
    LET c == RegisterCheck(us, req, fault)
    IN  IF c.done THEN [users |-> us, resp |-> c.resp]
        ELSE RegisterCreate(us, t, oid, req, fault, iv, salt)

\* AdminRegister: the existence check.  done means the handler has answered.
AdminRegisterCheck(us, req, fault) ==
    IF ~req.ok
    THEN [done |-> TRUE,
          resp |-> Reply(StatusBadRequest, "Invalid request payload", <<>>)]
    ELSE IF fault = "find"
    THEN [done |-> TRUE,
          resp |-> Reply(StatusInternalServerError, "Database error",
                         <<"FindOne">>)]
    ELSE IF FindOneByEmailHash(us, req.email) # 0
    THEN [done |-> TRUE,
          resp |-> Reply(StatusConflict, "Admin already exists", <<"FindOne">>)]
    ELSE [done |-> FALSE, resp |-> Reply(0, "", <<"FindOne">>)]

\* AdminRegister: hash, encrypt, build the document and insert it.
AdminRegisterCreate(us, t, oid, req, fault, iv, salt) ==
    LET h == GenerateFromPassword(req.password, DefaultCost, salt)
        e == Encrypt(req.email, Cfg.EncryptionKey, iv)
        user == NewUser(oid, req.email, e.out, h.hash, "admin", t)
    IN  IF h.err \/ fault = "hash"
        THEN [users |-> us,
              resp |-> Reply(StatusInternalServerError, "Failed to hash password",
                             <<"FindOne">>)]
        ELSE IF e.err \/ fault = "encrypt"
        THEN [users |-> us,
              resp |-> Reply(StatusInternalServerError, "Failed to encrypt data",
                             <<"FindOne">>)]
        ELSE IF fault = "insert"
        THEN [users |-> us,
              resp |-> Reply(StatusInternalServerError, "Failed to create admin",
                             <<"FindOne", "InsertOne">>)]
        ELSE [users |-> Append(us, user),
              resp |-> Reply(StatusOK, "Admin registered successfully",
                             <<"FindOne", "InsertOne">>)]

\* AdminRegister when no other request runs between its FindOne and its
\* InsertOne.
AdminRegister(us, t, oid, req, fault, iv, salt) ==
    LET c == AdminRegisterCheck(us, req, fault)
    IN  IF c.done THEN [users |-> us, resp |-> c.resp]
        ELSE AdminRegisterCreate(us, t, oid, req, fault, iv, salt)

\* LoginClaims with the expiry rounded up to the next whole second.
LoginClaimsRoundedUp(user, email, t) ==
    [userID |-> Hex(user.id), email |-> email, role |-> user.role,
     exp |-> Unix(t + TokenTTL) + 1]

\* LoginClaims that leaves the userID claim out.
LoginClaimsWithoutIdentity(user, email, t) ==
    [userID |-> <<>>, email |-> email, role |-> user.role,
     exp |-> Unix(t + TokenTTL)]

\* The claims Login and AdminLogin sign.
LoginClaims(user, email, t) ==
    [userID |-> Hex(user.id), email |-> email, role |-> user.role,
     exp |-> Unix(t + TokenTTL)]

\* Login that tells an unknown email from a wrong password.
LoginTellingUnknown(us, t, req, fault) ==
    LET i == FindOneByEmailHash(us, req.email)
        user == us[i]
        d == Decrypt(user.email, Cfg.EncryptionKey)
    IN  IF ~req.ok
        THEN Reply(StatusBadRequest, "Invalid request payload", <<>>)
        ELSE IF fault = "find"
        THEN Reply(StatusInternalServerError, "Database error", <<"FindOne">>)
        ELSE IF i = 0
        THEN Reply(StatusNotFound, "User not found", <<"FindOne">>)
        ELSE IF ~CompareHashAndPassword(user.password, req.password)
        THEN Reply(StatusUnauthorized, "Invalid credentials", <<"FindOne">>)
        ELSE IF d.err \/ fault = "decrypt"
        THEN Reply(StatusInternalServerError, "Failed to decrypt data",
                   <<"FindOne">>)
        ELSE IF fault = "sign"
        THEN Reply(StatusInternalServerError, "Failed to generate token",
                   <<"FindOne">>)
        ELSE TokenReply(SignedString(LoginClaims(user, d.out, t), Cfg.JWTSecret),
                        user.role, <<"FindOne">>)

Login(us, t, req, fault) ==
    LET i == FindOneByEmailHash(us, req.email)
        user == us[i]
        d == Decrypt(user.email, Cfg.EncryptionKey)
    IN  IF ~req.ok
        THEN Reply(StatusBadRequest, "Invalid request payload", <<>>)
        ELSE IF fault = "find"
        THEN Reply(StatusInternalServerError, "Database error", <<"FindOne">>)
        ELSE IF i = 0
        THEN Reply(StatusUnauthorized, "Invalid credentials", <<"FindOne">>)
        ELSE IF ~CompareHashAndPassword(user.password, req.password)
        THEN Reply(StatusUnauthorized, "Invalid credentials", <<"FindOne">>)
        ELSE IF d.err \/ fault = "decrypt"
        THEN Reply(StatusInternalServerError, "Failed to decrypt data",
                   <<"FindOne">>)
        ELSE IF fault = "sign"
        THEN Reply(StatusInternalServerError, "Failed to generate token",
                   <<"FindOne">>)
        ELSE TokenReply(SignedString(LoginClaims(user, d.out, t), Cfg.JWTSecret),
                        user.role, <<"FindOne">>)

\* AdminLogin that answers every failed lookup as it answers "no document".
AdminLoginHidingStoreErrors(us, t, req, fault) ==
    LET i == FindOneByEmailHash(us, req.email)
        user == us[i]
        d == Decrypt(user.email, Cfg.EncryptionKey)
    IN  IF ~req.ok
        THEN Reply(StatusBadRequest, "Invalid request payload", <<>>)
        ELSE IF fault = "find" \/ i = 0
        THEN Reply(StatusUnauthorized, "Invalid credentials", <<"FindOne">>)
        ELSE IF user.role # "admin"
        THEN Reply(StatusForbidden, "Access denied: Admin only", <<"FindOne">>)
        ELSE IF ~CompareHashAndPassword(user.password, req.password)
        THEN Reply(StatusUnauthorized, "Invalid credentials", <<"FindOne">>)
        ELSE IF d.err \/ fault = "decrypt"
        THEN Reply(StatusInternalServerError, "Failed to decrypt data",
                   <<"FindOne">>)
        ELSE IF fault = "sign"
        THEN Reply(StatusInternalServerError, "Failed to generate token",
                   <<"FindOne">>)
        ELSE TokenReply(SignedString(LoginClaims(user, d.out, t), Cfg.JWTSecret),
                        user.role, <<"FindOne">>)

AdminLogin(us, t, req, fault) ==
    LET i == FindOneByEmailHash(us, req.email)
        user == us[i]
        d == Decrypt(user.email, Cfg.EncryptionKey)
    IN  IF ~req.ok
        THEN Reply(StatusBadRequest, "Invalid request payload", <<>>)
        ELSE IF fault = "find"
        THEN Reply(StatusInternalServerError, "Database error", <<"FindOne">>)
        ELSE IF i = 0
        THEN Reply(StatusUnauthorized, "Invalid credentials", <<"FindOne">>)
        ELSE IF user.role # "admin"
        THEN Reply(StatusForbidden, "Access denied: Admin only", <<"FindOne">>)
        ELSE IF ~CompareHashAndPassword(user.password, req.password)
        THEN Reply(StatusUnauthorized, "Invalid credentials", <<"FindOne">>)
        ELSE IF d.err \/ fault = "decrypt"
        THEN Reply(StatusInternalServerError, "Failed to decrypt data",
                   <<"FindOne">>)
        ELSE IF fault = "sign"
        THEN Reply(StatusInternalServerError, "Failed to generate token",
                   <<"FindOne">>)
        ELSE TokenReply(SignedString(LoginClaims(user, d.out, t), Cfg.JWTSecret),
                        user.role, <<"FindOne">>)

(***************************************************************************)
(* The Authorization header.  A header is "Bearer " written bearer times   *)
(* and then a token string; the empty header is no prefix and the empty    *)
(* token string.                                                           *)
(***************************************************************************)
NoHeader == [bearer |-> 0, cred |-> EmptyToken]

\* A gate that insists on the prefix: without "Bearer " in front, what is
\* left is no token.
TrimPrefixRequired(h) ==
    IF h.bearer > 0 THEN [h EXCEPT !.bearer = @ - 1]
    ELSE [h EXCEPT !.cred = GarbageToken]

\* strings.TrimPrefix(authHeader, "Bearer ")
TrimPrefix(h) == IF h.bearer > 0 THEN [h EXCEPT !.bearer = @ - 1] ELSE h

\* jwt.Parse on what TrimPrefix left: a string that still starts with
\* "Bearer " is no token.
TokenValid(h, secret, t) ==
    LET ts == TrimPrefix(h)
    IN  ts.bearer = 0 /\ ParseValid(ts.cred, secret, t)

(***************************************************************************)
(* user-service/middleware: JWTAuthMiddleware.  pass tells whether         *)
(* next.ServeHTTP ran; ctx is the request context it ran with.             *)
(***************************************************************************)
NoCtx == [userID |-> <<>>, email |-> <<>>, role |-> "", encryptionKey |-> <<>>]

\* JWTAuthMiddleware that reads the claims without verifying the token.
JWTAuthMiddlewareUnverified(h, t) ==
    IF h = NoHeader
    THEN [pass |-> FALSE, ctx |-> NoCtx,
          resp |-> Reply(StatusUnauthorized, "Authorization header required",
                         <<>>)]
    ELSE IF TrimPrefix(h).bearer # 0 \/ h.cred.kind # "jwt"
    THEN [pass |-> FALSE, ctx |-> NoCtx,
          resp |-> Reply(StatusUnauthorized, "Invalid token", <<>>)]
    ELSE [pass |-> TRUE,
          ctx |-> [userID |-> h.cred.claims.userID, email |-> h.cred.claims.email,
                   role |-> h.cred.claims.role,
                   encryptionKey |-> Cfg.EncryptionKey],
          resp |-> Reply(0, "", <<>>)]

\* JWTAuthMiddleware that also looks the token's user up in the store and
\* turns the request away when the record is gone or its role has changed.
JWTAuthMiddlewareCheckingStore(h, t) ==
    LET o == ObjectIDFromHex(h.cred.claims.userID)
        i == FindOneById(users, o.id)
    IN  IF h = NoHeader
        THEN [pass |-> FALSE, ctx |-> NoCtx,
              resp |-> Reply(StatusUnauthorized, "Authorization header required",
                             <<>>)]
        ELSE IF \/ ~TokenValid(h, Cfg.JWTSecret, t)
                \/ o.err
                \/ i = 0
                \/ users[i].role # h.cred.claims.role
        THEN [pass |-> FALSE, ctx |-> NoCtx,
              resp |-> Reply(StatusUnauthorized, "Invalid token", <<>>)]
        ELSE [pass |-> TRUE,
              ctx |-> [userID |-> h.cred.claims.userID, email |-> h.cred.claims.email,
                       role |-> h.cred.claims.role,
                       encryptionKey |-> Cfg.EncryptionKey],
              resp |-> Reply(0, "", <<>>)]

JWTAuthMiddleware(h, t) ==
    IF h = NoHeader
    THEN [pass |-> FALSE, ctx |-> NoCtx,
          resp |-> Reply(StatusUnauthorized, "Authorization header required",
                         <<>>)]
    ELSE IF ~TokenValid(h, Cfg.JWTSecret, t)
    THEN [pass |-> FALSE, ctx |-> NoCtx,
          resp |-> Reply(StatusUnauthorized, "Invalid token", <<>>)]
    ELSE [pass |-> TRUE,
          ctx |-> [userID |-> h.cred.claims.userID, email |-> h.cred.claims.email,
                   role |-> h.cred.claims.role,
                   encryptionKey |-> Cfg.EncryptionKey],
          resp |-> Reply(0, "", <<>>)]

\* admin-service/middleware: JWTAuthMiddleware, the same gate in the
\* admin-service (its handlers read "role" and "encryptionKey" from the context).
AdminServiceJWTAuthMiddleware(h, t) == JWTAuthMiddleware(h, t)

\* AdminOnlyMiddleware that asks only for some role to be present.
AdminOnlyMiddlewareAnyRole(ctx) ==
    IF ctx.role = ""
    THEN [pass |-> FALSE,
          resp |-> Reply(StatusForbidden, "Admin access required", <<>>)]
    ELSE [pass |-> TRUE, resp |-> Reply(0, "", <<>>)]

\* admin-service/middleware: AdminOnlyMiddleware.
AdminOnlyMiddleware(ctx) ==
    IF ctx.role # "admin"
    THEN [pass |-> FALSE,
          resp |-> Reply(StatusForbidden, "Admin access required", <<>>)]
    ELSE [pass |-> TRUE, resp |-> Reply(0, "", <<>>)]

(***************************************************************************)
(* Store updates by _id.                                                   *)
(***************************************************************************)
\* A delete that also drops every record stored after the one it removes.
RemoveFrom(us, i) == SubSeq(us, 1, i - 1)

\* collection.DeleteOne(bson.M{"_id": id}) on a collection that holds it at i
RemoveAt(us, i) == SubSeq(us, 1, i - 1) \o SubSeq(us, i + 1, Len(us))

(***************************************************************************)
(* admin-service/handlers: ListUsers, DeleteUser, UpdateUserRole.          *)
(***************************************************************************)
\* The loop of ListUsers: decrypt each email; err if one fails.
RECURSIVE DecryptAll(_, _, _)
DecryptAll(us, key, i) ==
    IF i > Len(us) THEN [err |-> FALSE, data |-> <<>>]
    ELSE LET d == Decrypt(us[i].email, key)
             rest == DecryptAll(us, key, i + 1)
         IN  IF d.err \/ rest.err THEN [err |-> TRUE, data |-> <<>>]
             ELSE [err |-> FALSE,
                   data |-> <<UserResponse(us[i], d.out)>> \o rest.data]

ListUsers(us, ctx, fault) ==
    LET r == DecryptAll(us, ctx.encryptionKey, 1)
    IN  IF fault = "find"
        THEN [users |-> us,
              resp |-> Reply(StatusInternalServerError, "Database error",
                             <<"Find">>)]
        ELSE IF fault = "decode"
        THEN [users |-> us,
              resp |-> Reply(StatusInternalServerError, "Failed to decode users",
                             <<"Find">>)]
        ELSE IF r.err
        THEN [users |-> us,
              resp |-> Reply(StatusInternalServerError, "Failed to decrypt data",
                             <<"Find">>)]
        ELSE [users |-> us, resp |-> DataReply(r.data, NoMeta, <<"Find">>)]

DeleteUser(us, idStr, fault) ==
    LET o == ObjectIDFromHex(idStr)
        i == FindOneById(us, o.id)
    IN  IF o.err
        THEN [users |-> us,
              resp |-> Reply(StatusBadRequest, "Invalid user ID", <<>>)]
        ELSE IF fault = "delete"
        THEN [users |-> us,
              resp |-> Reply(StatusInternalServerError, "Failed to delete user",
                             <<"DeleteOne">>)]
        ELSE IF i = 0
        THEN [users |-> us,
              resp |-> Reply(StatusNotFound, "User not found", <<"DeleteOne">>)]
        ELSE [users |-> RemoveAt(us, i),
              resp |-> Reply(StatusOK, "User deleted successfully",
                             <<"DeleteOne">>)]

\* "Validate role"
\* ValidRole that only asks for a role to be present.
ValidRoleNonEmpty(role) == role # ""

\* ValidRole that lets every value through.
ValidRoleUnchecked(role) == TRUE

ValidRole(role) == role = "user" \/ role = "admin"

\* UpdateUserRole that writes the record anew, creation time included.
UpdateUserRoleRestamping(us, t, idStr, req, fault) ==
    LET o == ObjectIDFromHex(idStr)
        i == FindOneById(us, o.id)
    IN  IF o.err
        THEN [users |-> us,
              resp |-> Reply(StatusBadRequest, "Invalid user ID", <<>>)]
        ELSE IF ~req.ok
        THEN [users |-> us,
              resp |-> Reply(StatusBadRequest, "Invalid request payload", <<>>)]
        ELSE IF ~ValidRole(req.role)
        THEN [users |-> us,
              resp |-> Reply(StatusBadRequest,
                             "Invalid role. Must be 'user' or 'admin'", <<>>)]
        ELSE IF fault = "update"
        THEN [users |-> us,
              resp |-> Reply(StatusInternalServerError,
                             "Failed to update user role", <<"UpdateOne">>)]
        ELSE IF i = 0
        THEN [users |-> us,
              resp |-> Reply(StatusNotFound, "User not found", <<"UpdateOne">>)]
        ELSE [users |-> [us EXCEPT ![i].role = req.role, ![i].updated_at = t,
                                   ![i].created_at = t],
              resp |-> Reply(StatusOK, "User role updated successfully",
                             <<"UpdateOne">>)]

UpdateUserRole(us, t, idStr, req, fault) ==
    LET o == ObjectIDFromHex(idStr)
        i == FindOneById(us, o.id)
    IN  IF o.err
        THEN [users |-> us,
              resp |-> Reply(StatusBadRequest, "Invalid user ID", <<>>)]
        ELSE IF ~req.ok
        THEN [users |-> us,
              resp |-> Reply(StatusBadRequest, "Invalid request payload", <<>>)]
        ELSE IF ~ValidRole(req.role)
        THEN [users |-> us,
              resp |-> Reply(StatusBadRequest,
                             "Invalid role. Must be 'user' or 'admin'", <<>>)]
        ELSE IF fault = "update"
        THEN [users |-> us,
              resp |-> Reply(StatusInternalServerError,
                             "Failed to update user role", <<"UpdateOne">>)]
        ELSE IF i = 0
        THEN [users |-> us,
              resp |-> Reply(StatusNotFound, "User not found", <<"UpdateOne">>)]
        ELSE [users |-> [us EXCEPT ![i].role = req.role, ![i].updated_at = t],
              resp |-> Reply(StatusOK, "User role updated successfully",
                             <<"UpdateOne">>)]

(***************************************************************************)
(* user-service/handlers: GetUserProfile, UpdateUserProfile.               *)
(***************************************************************************)
\* GetUserProfile that re-keys the record it serves with the base64 of its
\* email.
GetUserProfileRekeying(us, ctx, fault) ==
    LET o == ObjectIDFromHex(ctx.userID)
        i == FindOneById(us, o.id)
        d == Decrypt(us[i].email, ctx.encryptionKey)
    IN  IF o.err
        THEN [users |-> us,
              resp |-> Reply(StatusBadRequest, "Invalid user ID", <<>>)]
        ELSE IF fault = "find"
        THEN [users |-> us,
              resp |-> Reply(StatusInternalServerError, "Database error",
                             <<"FindOne">>)]
        ELSE IF i = 0
        THEN [users |-> us,
              resp |-> Reply(StatusNotFound, "User not found", <<"FindOne">>)]
        ELSE IF d.err
        THEN [users |-> us,
              resp |-> Reply(StatusInternalServerError, "Failed to decrypt data",
                             <<"FindOne">>)]
        ELSE [users |-> [us EXCEPT ![i].email_hash = Base64Encode(d.out)],
              resp |-> DataReply(<<UserResponse(us[i], d.out)>>, NoMeta,
                                 <<"FindOne", "UpdateOne">>)]

GetUserProfile(us, ctx, fault) ==
    LET o == ObjectIDFromHex(ctx.userID)
        i == FindOneById(us, o.id)
        d == Decrypt(us[i].email, ctx.encryptionKey)
    IN  IF o.err
        THEN [users |-> us,
              resp |-> Reply(StatusBadRequest, "Invalid user ID", <<>>)]
        ELSE IF fault = "find"
        THEN [users |-> us,
              resp |-> Reply(StatusInternalServerError, "Database error",
                             <<"FindOne">>)]
        ELSE IF i = 0
        THEN [users |-> us,
              resp |-> Reply(StatusNotFound, "User not found", <<"FindOne">>)]
        ELSE IF d.err
        THEN [users |-> us,
              resp |-> Reply(StatusInternalServerError, "Failed to decrypt data",
                             <<"FindOne">>)]
        ELSE [users |-> us,
              resp |-> DataReply(<<UserResponse(us[i], d.out)>>, NoMeta,
                                 <<"FindOne">>)]

UpdateUserProfile(us, t, ctx, req, fault, iv) ==
    LET o == ObjectIDFromHex(ctx.userID)
        i == FindOneById(us, o.id)
        e == Encrypt(req.email, ctx.encryptionKey, iv)
    IN  IF ~req.ok
        THEN [users |-> us,
              resp |-> Reply(StatusBadRequest, "Invalid request payload", <<>>)]
        ELSE IF o.err
        THEN [users |-> us,
              resp |-> Reply(StatusBadRequest, "Invalid user ID", <<>>)]
        ELSE IF e.err
        THEN [users |-> us,
              resp |-> Reply(StatusInternalServerError, "Failed to encrypt data",
                             <<>>)]
        ELSE IF fault = "update"
        THEN [users |-> us,
              resp |-> Reply(StatusInternalServerError, "Failed to update user",
                             <<"UpdateOne">>)]
        ELSE IF i = 0
        THEN [users |-> us,
              resp |-> Reply(StatusNotFound, "User not found", <<"UpdateOne">>)]
        ELSE [users |-> [us EXCEPT ![i].email = e.out, ![i].email_hash = req.email,
                                   ![i].updated_at = t],
              resp |-> Reply(StatusOK, "Profile updated successfully",
                             <<"UpdateOne">>)]

(***************************************************************************)
(* Routes: the middleware chain in front of each handler (main.go).        *)
(* trace lists the stages that ran.                                        *)
(***************************************************************************)
\* The context that the user-service's gate hands to the handler behind it.
UserServiceCtx(h, t) == JWTAuthMiddleware(h, t).ctx

\* The context that the admin-service's gates hand to the handler.
AdminServiceCtx(h, t) == AdminServiceJWTAuthMiddleware(h, t).ctx

\* user-service: r.Use(JWTAuthMiddleware(cfg)).  r is what the handler does
\* with the context the gate hands it; it runs only when the gate passes.
UserServiceRoute(us, header, t, name, r) ==
    LET g == JWTAuthMiddleware(header, t)
    IN  IF ~g.pass
        THEN [users |-> us, resp |-> g.resp, trace |-> <<"JWTAuthMiddleware">>]
        ELSE [users |-> r.users, resp |-> r.resp,
              trace |-> <<"JWTAuthMiddleware", name>>]

\* AdminServiceRoute with the two Use lines swapped: the role check runs
\* first, on a context that carries no role yet.
AdminServiceRouteRoleFirst(us, header, t, name, r) ==
    LET a == AdminOnlyMiddleware(NoCtx)
        g == AdminServiceJWTAuthMiddleware(header, t)
    IN  IF ~a.pass
        THEN [users |-> us, resp |-> a.resp, trace |-> <<"AdminOnlyMiddleware">>]
        ELSE IF ~g.pass
        THEN [users |-> us, resp |-> g.resp,
              trace |-> <<"AdminOnlyMiddleware", "JWTAuthMiddleware">>]
        ELSE [users |-> r.users, resp |-> r.resp,
              trace |-> <<"AdminOnlyMiddleware", "JWTAuthMiddleware", name>>]

\* admin-service: r.Use(JWTAuthMiddleware(cfg)); r.Use(AdminOnlyMiddleware).
AdminServiceRoute(us, header, t, name, r) ==
    LET g == AdminServiceJWTAuthMiddleware(header, t)
        a == AdminOnlyMiddleware(g.ctx)
    IN  IF ~g.pass
        THEN [users |-> us, resp |-> g.resp, trace |-> <<"JWTAuthMiddleware">>]
        ELSE IF ~a.pass
        THEN [users |-> us, resp |-> a.resp,
              trace |-> <<"JWTAuthMiddleware", "AdminOnlyMiddleware">>]
        ELSE [users |-> r.users, resp |-> r.resp,
              trace |-> <<"JWTAuthMiddleware", "AdminOnlyMiddleware", name>>]

(***************************************************************************)
(* The monolith: config, utils.HashEmail, middleware and handlers.         *)
(***************************************************************************)
\* config: Load()
MonolithCfg ==
    [JWTSecret |-> "your-secret-key", EncryptionKey |-> MonolithEncryptionKey]

(***************************************************************************)
(* crypto/sha256.  A uint32 is a pair of 16-bit halves, high half first.   *)
(***************************************************************************)
XorW(a, b) == <<XorBits(a[1], b[1], 16), XorBits(a[2], b[2], 16)>>

AndW(a, b) == <<AndBits(a[1], b[1], 16), AndBits(a[2], b[2], 16)>>

NotW(a) == <<65535 - a[1], 65535 - a[2]>>

\* a + b, modulo 2^32.
AddW(a, b) ==
    <<(a[1] + b[1] + ((a[2] + b[2]) \div 65536)) % 65536, (a[2] + b[2]) % 65536>>

\* a >> k and bits.RotateLeft32(a, -k), for 0 < k < 32.
ShiftRight(a, k) ==
    <<a[1] \div (2 ^ k), (a[2] \div (2 ^ k)) + (a[1] % (2 ^ k)) * (2 ^ (16 - k))>>

RotateRight(a, k) ==
    LET b == IF k >= 16 THEN <<a[2], a[1]>> ELSE a
        j == k % 16
    IN  <<(b[1] \div (2 ^ j)) + (b[2] % (2 ^ j)) * (2 ^ (16 - j)),
          (b[2] \div (2 ^ j)) + (b[1] % (2 ^ j)) * (2 ^ (16 - j))>>

\* _K: the round constants.
ShaK ==
    <<<<17034, 12184>>, <<28983, 17553>>, <<46528, 64463>>, <<59829, 56229>>,
      <<14678, 49755>>, <<23025, 4593>>, <<37439, 33444>>, <<43804, 24277>>,
      <<55303, 43672>>, <<4739, 23297>>, <<9265, 34238>>, <<21772, 32195>>,
      <<29374, 23924>>, <<32990, 45566>>, <<39900, 1703>>, <<49563, 61812>>,
      <<58523, 27073>>, <<61374, 18310>>, <<4033, 40390>>, <<9228, 41420>>,
      <<11753, 11375>>, <<19060, 33962>>, <<23728, 43484>>, <<30457, 35034>>,
      <<38974, 20818>>, <<43057, 50797>>, <<45059, 10184>>, <<48985, 32711>>,
      <<50912, 3059>>, <<54695, 37191>>, <<1738, 25425>>, <<5161, 10599>>,
      <<10167, 2693>>, <<11803, 8504>>, <<19756, 28156>>, <<21304, 3347>>,
      <<25866, 29524>>, <<30314, 2747>>, <<33218, 51502>>, <<37490, 11397>>,
      <<41663, 59553>>, <<43034, 26187>>, <<49739, 35696>>, <<51052, 20899>>,
      <<53650, 59417>>, <<54937, 1572>>, <<62478, 13701>>, <<4202, 41072>>,
      <<6564, 49430>>, <<7735, 27656>>, <<10056, 30540>>, <<13488, 48309>>,
      <<14620, 3251>>, <<20184, 43594>>, <<23452, 51791>>, <<26670, 28659>>,
      <<29839, 33518>>, <<30885, 25455>>, <<33992, 30740>>, <<36039, 520>>,
      <<37054, 65530>>, <<42064, 27883>>, <<48889, 41975>>, <<50801, 30962>>>>

\* init0 .. init7: the initial hash value.
ShaInit ==
    <<<<27145, 58983>>, <<47975, 44677>>, <<15470, 62322>>, <<42319, 62778>>,
      <<20750, 21119>>, <<39685, 26764>>, <<8067, 55723>>, <<23520, 52505>>>>

\* The message with its padding: a one bit, zeros, and the length in bits as
\* eight bytes, to a multiple of 64 bytes.
ShaPad(b) ==
    LET bits == 8 * Len(b)
    IN  b \o <<128>> \o [i \in 1..((119 - Len(b)) % 64) |-> 0]
          \o <<0, 0, 0, 0, bits \div 16777216, (bits \div 65536) % 256,
               (bits \div 256) % 256, bits % 256>>

\* The 16 words of one 64-byte chunk, big-endian.
ShaWords(p) ==
    [t \in 1..16 |->
        <<256 * p[4 * t - 3] + p[4 * t - 2], 256 * p[4 * t - 1] + p[4 * t]>>]

\* The 64 words of the message schedule: word t comes from the words 2, 7,
\* 15 and 16 places before it.
RECURSIVE ShaSchedule(_)
ShaSchedule(w) ==
    IF Len(w) >= 64 THEN w
    ELSE ShaSchedule(Append(w,
             AddW(AddW(XorW(XorW(RotateRight(w[Len(w) - 1], 17),
                                 RotateRight(w[Len(w) - 1], 19)),
                            ShiftRight(w[Len(w) - 1], 10)),
                       w[Len(w) - 6]),
                  AddW(XorW(XorW(RotateRight(w[Len(w) - 14], 7),
                                 RotateRight(w[Len(w) - 14], 18)),
                            ShiftRight(w[Len(w) - 14], 3)),
                       w[Len(w) - 15]))))

\* One round: s holds a, b, c, d, e, f, g, h.
ShaStep(s, t1, t2) ==
    <<AddW(t1, t2), s[1], s[2], s[3], AddW(s[4], t1), s[5], s[6], s[7]>>

\* The rounds of block() from round i on, with
\*   t1 = h + (e>>>6 ^ e>>>11 ^ e>>>25) + ((e & f) ^ (^e & g)) + _K[i] + w[i]
\*   t2 = (a>>>2 ^ a>>>13 ^ a>>>22) + ((a & b) ^ (a & c) ^ (b & c))
RECURSIVE ShaRounds(_, _, _)
ShaRounds(s, w, i) ==
    IF i > Len(w) \/ Len(s) = 0 THEN s
    ELSE ShaRounds(
             ShaStep(s,
                 AddW(AddW(AddW(s[8],
                                XorW(XorW(RotateRight(s[5], 6),
                                          RotateRight(s[5], 11)),
                                     RotateRight(s[5], 25))),
                           XorW(AndW(s[5], s[6]), AndW(NotW(s[5]), s[7]))),
                      AddW(ShaK[i], w[i])),
                 AddW(XorW(XorW(RotateRight(s[1], 2), RotateRight(s[1], 13)),
                           RotateRight(s[1], 22)),
                      XorW(XorW(AndW(s[1], s[2]), AndW(s[1], s[3])),
                           AndW(s[2], s[3])))),
             w, i + 1)

\* The hash value with the working variables added to it.
ShaSum(h, s) == [j \in 1..8 |-> AddW(h[j], s[j])]

\* block(dig, p): the hash value after the chunks of p.
RECURSIVE ShaBlocks(_, _)
ShaBlocks(h, p) ==
    IF Len(p) = 0 \/ Len(h) = 0 THEN h
    ELSE ShaBlocks(ShaSum(h, ShaRounds(h, ShaSchedule(ShaWords(p)), 1)),
                   SubSeq(p, 65, Len(p)))

\* The eight words of the hash value as 32 bytes, big-endian.
ShaBytes(h) ==
    [i \in 1..32 |->
        IF i % 2 = 1
        THEN h[(i + 3) \div 4][(((i - 1) % 4) \div 2) + 1] \div 256
        ELSE h[(i + 3) \div 4][(((i - 1) % 4) \div 2) + 1] % 256]

\* sha256.Sum256(b): the 32 bytes of the digest.
Sha256(b) == ShaBytes(ShaBlocks(ShaInit, ShaPad(b)))

\* The emails that requests carry: "" and "a".
Emails == {<<>>, <<97>>}

\* The lookup keys of those emails, hashed once.
EmailHashes == [e \in Emails |-> Base64Encode(Sha256(e))]

\* utils.HashEmail(email)
HashEmail(email) ==
    IF email \in Emails THEN EmailHashes[email] ELSE Base64Encode(Sha256(email))

\* MonolithJWTAuthMiddleware that passes a verified request on without
\* putting its claims into the context.
MonolithJWTAuthMiddlewareNoClaims(h, t) ==
    IF h = NoHeader
    THEN [pass |-> FALSE, ctx |-> [claims |-> NoClaims],
          resp |-> Reply(StatusUnauthorized, "Authorization header required",
                         <<>>)]
    ELSE IF ~TokenValid(h, MonolithCfg.JWTSecret, t)
    THEN [pass |-> FALSE, ctx |-> [claims |-> NoClaims],
          resp |-> Reply(StatusUnauthorized, "Invalid token", <<>>)]
    ELSE [pass |-> TRUE, ctx |-> [claims |-> NoClaims],
          resp |-> Reply(0, "", <<>>)]

\* middleware.JWTAuthMiddleware of the monolith: the claims go into the
\* context under "claims".
MonolithJWTAuthMiddleware(h, t) ==
    IF h = NoHeader
    THEN [pass |-> FALSE, ctx |-> [claims |-> NoClaims],
          resp |-> Reply(StatusUnauthorized, "Authorization header required",
                         <<>>)]
    ELSE IF ~TokenValid(h, MonolithCfg.JWTSecret, t)
    THEN [pass |-> FALSE, ctx |-> [claims |-> NoClaims],
          resp |-> Reply(StatusUnauthorized, "Invalid token", <<>>)]
    ELSE [pass |-> TRUE, ctx |-> [claims |-> h.cred.claims],
          resp |-> Reply(0, "", <<>>)]

(***************************************************************************)
(* Go's int, 64 bits wide.  A word is the bit pattern of an int as four    *)
(* 16-bit limbs, lowest first; it stands for a negative int when its top   *)
(* bit is set.                                                             *)
(***************************************************************************)
\* x * k + c on limbs, for small k and c: one limb longer than x, the last
\* limb being what is carried out.
RECURSIVE MulAdd(_, _, _)
MulAdd(x, k, c) ==
    IF Len(x) = 0 THEN <<c>>
    ELSE LET v == Head(x) * k + c
         IN  <<v % 65536>> \o MulAdd(Tail(x), k, v \div 65536)

\* x - 1 on limbs, for x > 0.
RECURSIVE Decrement(_)
Decrement(x) ==
    IF Head(x) > 0 THEN <<Head(x) - 1>> \o Tail(x)
    ELSE <<65535>> \o Decrement(Tail(x))

\* Whether a word has at most 30 bits.
Narrow(w) == w[3] = 0 /\ w[4] = 0 /\ w[2] < 16384

\* The number a narrow word stands for; a wider word is kept as its limbs.
Number(w) == IF Narrow(w) THEN w[1] + 65536 * w[2] ELSE w

\* The value of a string of decimal digits as a word; over when it needs
\* more than 64 bits.
RECURSIVE DigitsWord(_, _)
DigitsWord(s, acc) ==
    IF Len(s) = 0 THEN [over |-> FALSE, w |-> acc]
    ELSE LET v == MulAdd(acc, 10, Head(s) - 48)
         IN  IF v[5] # 0 THEN [over |-> TRUE, w |-> acc]
             ELSE DigitsWord(Tail(s), SubSeq(v, 1, 4))

\* strconv.Atoi on a string of optional sign and decimal digits: err for a
\* string that is no number and for a value outside int.  neg and w are the
\* sign and the magnitude; n is the value when it has at most 30 bits.
Atoi(s) ==
    LET signed == Len(s) > 0 /\ (s[1] = 43 \/ s[1] = 45)
        neg == signed /\ s[1] = 45
        digits == IF signed THEN Tail(s) ELSE s
        m == DigitsWord(digits, <<0, 0, 0, 0>>)
    IN  IF \/ Len(digits) = 0
           \/ \E i \in 1..Len(digits) : digits[i] < 48 \/ digits[i] > 57
           \/ m.over
           \/ m.w[4] >= 32768 /\ ~(neg /\ m.w = <<0, 0, 0, 32768>>)
        THEN [err |-> TRUE, n |-> 0, wide |-> FALSE, neg |-> FALSE,
              w |-> <<0, 0, 0, 0>>]
        ELSE [err |-> FALSE,
              n |-> IF ~Narrow(m.w) THEN 0
                    ELSE IF neg THEN 0 - Number(m.w) ELSE Number(m.w),
              wide |-> ~Narrow(m.w), neg |-> neg, w |-> m.w]

\* ListUsers: the page query parameter, as a word.
PageWord(p) ==
    LET a == Atoi(p)
    IN  IF p # <<>> /\ ~a.err /\ ~a.neg /\ a.w # <<0, 0, 0, 0>>
        THEN a.w ELSE <<1, 0, 0, 0>>

\* ListUsers: the page query parameter.
PageOf(p) == Number(PageWord(p))

\* ListUsers: the limit query parameter.
LimitOf(l) ==
    IF l # <<>> /\ ~Atoi(l).err /\ ~Atoi(l).wide /\ Atoi(l).n > 0
       /\ Atoi(l).n <= 100
    THEN Atoi(l).n ELSE 10

\* skip := (page - 1) * limit, in int: the product cut to 64 bits.  neg
\* tells whether the int is negative, narrow whether it has at most 30
\* bits, and n is then its value.
Skip(p, l) ==
    LET w == SubSeq(MulAdd(Decrement(PageWord(p)), LimitOf(l), 0), 1, 4)
    IN  [w |-> w, neg |-> w[4] >= 32768, narrow |-> Narrow(w),
         n |-> Number(w)]

\* SetSort(bson.M{"created_at": -1}): newest first.  created_at is the only
\* sort key, so the server may return records of one created_at in any
\* order: these are all the orders in which it may return the collection.
SortNewestFirst(us) ==
    LET n == Len(us)
        orders == {q \in [1..n -> 1..n] :
                      /\ \A j, k \in 1..n : j # k => q[j] # q[k]
                      /\ \A j, k \in 1..n :
                             j < k => us[q[j]].created_at >= us[q[k]].created_at}
    IN  {[k \in 1..n |-> us[q[k]]] : q \in orders}

\* SetSkip(skip).SetLimit(limit)
Page(us, skip, limit) == SubSeq(us, skip + 1, Min(Len(us), skip + limit))

\* ListUsers up to the answer of CountDocuments.  done means the handler
\* has answered; total is the count.
MonolithListUsersCount(us, ctx, fault) ==
    IF ctx.claims.role # "admin"
    THEN [done |-> TRUE, total |-> 0,
          resp |-> Reply(StatusForbidden, "Forbidden: Admin access required",
                         <<>>)]
    ELSE IF fault = "count"
    THEN [done |-> TRUE, total |-> 0,
          resp |-> Reply(StatusInternalServerError, "Failed to count users",
                         <<"CountDocuments">>)]
    ELSE [done |-> FALSE, total |-> Len(us),
          resp |-> Reply(0, "", <<"CountDocuments">>)]

\* ListUsers from its Find to the response; total is what CountDocuments
\* answered, us the collection that Find reads and sorted the order, one of
\* SortNewestFirst(us), in which the server returns it.
MonolithListUsersFind(us, total, page, limit, fault, sorted) ==
    LET pg == PageOf(page)
        lim == LimitOf(limit)
        skip == Skip(page, limit)
        found == IF skip.narrow THEN Page(sorted, skip.n, lim)
                 ELSE <<>>
        r == DecryptAll(found, MonolithCfg.EncryptionKey, 1)
        meta == [total |-> total, page |-> pg, limit |-> lim,
                 total_pages |-> (total + lim - 1) \div lim]
    IN  IF fault = "find" \/ skip.neg
        THEN [users |-> us,
              resp |-> Reply(StatusInternalServerError, "Failed to fetch users",
                             <<"CountDocuments", "Find">>)]
        ELSE IF fault = "decode"
        THEN [users |-> us,
              resp |-> Reply(StatusInternalServerError, "Failed to decode users",
                             <<"CountDocuments", "Find">>)]
        ELSE IF r.err
        THEN [users |-> us,
              resp |-> Reply(StatusInternalServerError,
                             "Failed to decrypt user data",
                             <<"CountDocuments", "Find">>)]
        ELSE [users |-> us,
              resp |-> DataReply(r.data, meta, <<"CountDocuments", "Find">>)]

\* ListUsers when no other request runs between its CountDocuments and its
\* Find.
MonolithListUsers(us, ctx, page, limit, fault, sorted) ==
    LET c == MonolithListUsersCount(us, ctx, fault)
    IN  IF c.done THEN [users |-> us, resp |-> c.resp]
        ELSE MonolithListUsersFind(us, c.total, page, limit, fault, sorted)

MonolithDeleteUser(us, ctx, req, fault) ==
    LET o == ObjectIDFromHex(req.user_id)
        i == FindOneById(us, o.id)
    IN  IF ctx.claims.role # "admin"
        THEN [users |-> us,
              resp |-> Reply(StatusForbidden, "Forbidden: Admin access required",
                             <<>>)]
        ELSE IF ~req.ok
        THEN [users |-> us,
              resp |-> Reply(StatusBadRequest, "Invalid request body", <<>>)]
        ELSE IF req.user_id = <<>>
        THEN [users |-> us,
              resp |-> Reply(StatusBadRequest, "User ID is required", <<>>)]
        ELSE IF o.err
        THEN [users |-> us,
              resp |-> Reply(StatusBadRequest, "Invalid user ID format", <<>>)]
        ELSE IF fault = "delete"
        THEN [users |-> us,
              resp |-> Reply(StatusInternalServerError, "Failed to delete user",
                             <<"DeleteOne">>)]
        ELSE IF i = 0
        THEN [users |-> us,
              resp |-> Reply(StatusNotFound, "User not found", <<"DeleteOne">>)]
        ELSE [users |-> RemoveAt(us, i),
              resp |-> Reply(StatusOK, "User deleted successfully",
                             <<"DeleteOne">>)]

MonolithUpdateUserRole(us, t, ctx, req, fault) ==
    LET o == ObjectIDFromHex(req.user_id)
        i == FindOneById(us, o.id)
    IN  IF ctx.claims.role # "admin"
        THEN [users |-> us,
              resp |-> Reply(StatusForbidden, "Forbidden: Admin access required",
                             <<>>)]
        ELSE IF ~req.ok
        THEN [users |-> us,
              resp |-> Reply(StatusBadRequest, "Invalid request body", <<>>)]
        ELSE IF req.user_id = <<>> \/ req.role = ""
        THEN [users |-> us,
              resp |-> Reply(StatusBadRequest, "User ID and role are required",
                             <<>>)]
        ELSE IF ~ValidRole(req.role)
        THEN [users |-> us,
              resp |-> Reply(StatusBadRequest,
                             "Invalid role. Must be 'user' or 'admin'", <<>>)]
        ELSE IF o.err
        THEN [users |-> us,
              resp |-> Reply(StatusBadRequest, "Invalid user ID format", <<>>)]
        ELSE IF fault = "update"
        THEN [users |-> us,
              resp |-> Reply(StatusInternalServerError,
                             "Failed to update user role", <<"UpdateOne">>)]
        ELSE IF i = 0
        THEN [users |-> us,
              resp |-> Reply(StatusNotFound, "User not found", <<"UpdateOne">>)]
        ELSE [users |-> [us EXCEPT ![i].role = req.role, ![i].updated_at = t],
              resp |-> Reply(StatusOK, "User role updated successfully",
                             <<"UpdateOne">>)]

MonolithGetUserProfile(us, ctx, fault) ==
    LET o == ObjectIDFromHex(ctx.claims.userID)
        i == FindOneById(us, o.id)
        d == Decrypt(us[i].email, MonolithCfg.EncryptionKey)
    IN  IF o.err
        THEN [users |-> us,
              resp |-> Reply(StatusBadRequest, "Invalid user ID", <<>>)]
        ELSE IF fault = "find"
        THEN [users |-> us,
              resp |-> Reply(StatusInternalServerError, "Failed to fetch user",
                             <<"FindOne">>)]
        ELSE IF i = 0
        THEN [users |-> us,
              resp |-> Reply(StatusNotFound, "User not found", <<"FindOne">>)]
        ELSE IF d.err
        THEN [users |-> us,
              resp |-> Reply(StatusInternalServerError,
                             "Failed to decrypt user data", <<"FindOne">>)]
        ELSE [users |-> us,
              resp |-> DataReply(<<UserResponse(us[i], d.out)>>, NoMeta,
                                 <<"FindOne">>)]

\* CountDocuments(bson.M{"email_hash": key, "_id": bson.M{"$ne": id}})
CountOthersByEmailHash(us, key, id) ==
    Cardinality({i \in 1..Len(us) : us[i].email_hash = key /\ us[i].id # id})

\* The $set document of UpdateUserProfile with nothing but the time in it.
NoSet(t) ==
    [updated_at |-> t, named |-> FALSE, email |-> <<>>, email_hash |-> <<>>]

\* UpdateUserProfile up to the answer of CountDocuments, which it calls
\* only when the request names an email; o is the parsed identifier,
\* emailHash and e the lookup key and the ciphertext of that email.  done
\* means the handler has answered; id and set are the identifier and the
\* $set document that it holds otherwise.
MonolithUpdateUserProfileChecked(us, t, o, req, fault, emailHash, e) ==
    IF o.err
    THEN [done |-> TRUE, id |-> o.id, set |-> NoSet(t),
          resp |-> Reply(StatusBadRequest, "Invalid user ID", <<>>)]
    ELSE IF ~req.ok
    THEN [done |-> TRUE, id |-> o.id, set |-> NoSet(t),
          resp |-> Reply(StatusBadRequest, "Invalid request body", <<>>)]
    ELSE IF req.email = <<>>
    THEN [done |-> FALSE, id |-> o.id, set |-> NoSet(t),
          resp |-> Reply(0, "", <<>>)]
    ELSE IF e.err
    THEN [done |-> TRUE, id |-> o.id, set |-> NoSet(t),
          resp |-> Reply(StatusInternalServerError, "Failed to encrypt email",
                         <<>>)]
    ELSE IF fault = "count"
    THEN [done |-> TRUE, id |-> o.id, set |-> NoSet(t),
          resp |-> Reply(StatusInternalServerError,
                         "Failed to check email availability",
                         <<"CountDocuments">>)]
    ELSE IF CountOthersByEmailHash(us, emailHash, o.id) > 0
    THEN [done |-> TRUE, id |-> o.id, set |-> NoSet(t),
          resp |-> Reply(StatusConflict, "Email already in use",
                         <<"CountDocuments">>)]
    ELSE [done |-> FALSE, id |-> o.id,
          set |-> [updated_at |-> t, named |-> TRUE, email |-> e.out,
                   email_hash |-> emailHash],
          resp |-> Reply(0, "", <<"CountDocuments">>)]

MonolithUpdateUserProfileCheck(us, t, ctx, req, fault, iv) ==
    MonolithUpdateUserProfileChecked(
        us, t, ObjectIDFromHex(ctx.claims.userID), req, fault,
        HashEmail(req.email), Encrypt(req.email, MonolithCfg.EncryptionKey, iv))

\* UpdateUserProfile from there to the response: us is the collection that
\* UpdateOne finds.
MonolithUpdateUserProfileUpdate(us, id, set, password, fault, salt) ==
    LET i == FindOneById(us, id)
        h == GenerateFromPassword(password, DefaultCost, salt)
        checked == IF set.named THEN <<"CountDocuments">> ELSE <<>>
    IN  IF password # <<>> /\ h.err
        THEN [users |-> us,
              resp |-> Reply(StatusInternalServerError, "Failed to hash password",
                             checked)]
        ELSE IF fault = "update"
        THEN [users |-> us,
              resp |-> Reply(StatusInternalServerError, "Failed to update profile",
                             checked \o <<"UpdateOne">>)]
        ELSE IF i = 0
        THEN [users |-> us,
              resp |-> Reply(StatusNotFound, "User not found",
                             checked \o <<"UpdateOne">>)]
        ELSE [users |->
                  [us EXCEPT
                      ![i].updated_at = set.updated_at,
                      ![i].email = IF set.named THEN set.email ELSE @,
                      ![i].email_hash = IF set.named THEN set.email_hash ELSE @,
                      ![i].password = IF password # <<>> THEN h.hash ELSE @],
              resp |-> Reply(StatusOK, "Profile updated successfully",
                             checked \o <<"UpdateOne">>)]

\* What UpdateUserProfile does after its check, on the collection it finds
\* then.
MonolithUpdateUserProfileAfter(us, c, password, fault, salt) ==
    IF c.done THEN [users |-> us, resp |-> c.resp]
    ELSE MonolithUpdateUserProfileUpdate(us, c.id, c.set, password, fault, salt)

\* UpdateUserProfile when no other request runs between its CountDocuments
\* and its UpdateOne.
MonolithUpdateUserProfile(us, t, ctx, req, fault, iv, salt) ==
    MonolithUpdateUserProfileAfter(
        us, MonolithUpdateUserProfileCheck(us, t, ctx, req, fault, iv),
        req.password, fault, salt)

\* The context that the monolith's gate hands to the handler behind it.
MonolithCtx(h, t) == MonolithJWTAuthMiddleware(h, t).ctx

\* The monolith's protected and admin subrouters: Use(JWTAuthMiddleware(cfg)).
MonolithRoute(us, header, t, name, r) ==
    LET g == MonolithJWTAuthMiddleware(header, t)
    IN  IF ~g.pass
        THEN [users |-> us, resp |-> g.resp, trace |-> <<"JWTAuthMiddleware">>]
        ELSE [users |-> r.users, resp |-> r.resp,
              trace |-> <<"JWTAuthMiddleware", name>>]

(***************************************************************************)
(* Inputs.                                                                 *)
(***************************************************************************)
\* "" and "p"
Passwords == {<<>>, <<112>>}
\* The role field of a registration body: absent, admin, something else.
RequestRoles == {"", "admin", "root"}
\* The salt bcrypt draws.
Salts == {1}
StoreFaults == {"none", "find", "insert"}
\* The calls of Register and AdminRegister that can return an error.
RegisterFaults == StoreFaults \cup {"hash", "encrypt"}
\* The calls of Login and AdminLogin that can return an error.
LoginFaults == {"none", "find", "decrypt", "sign"}

\* A body json Decode rejects leaves the request struct at its zero value.
BadBody == [ok |-> FALSE, email |-> <<>>, password |-> <<>>, role |-> ""]

\* Bodies of /login, /admin/login and /admin/register.
CredentialBodies ==
    {BadBody} \cup
    {[ok |-> TRUE, email |-> e, password |-> p, role |-> ""] :
        e \in Emails, p \in Passwords}

\* Bodies of /register.
RegisterBodies ==
    {BadBody} \cup
    {[ok |-> TRUE, email |-> e, password |-> p, role |-> r] :
        e \in Emails, p \in Passwords, r \in RequestRoles}

\* The bodies that registrations carry in the runs explored: one that does
\* not decode, and "a" with "p", with and without the role admin.
ClientRegisterBodies ==
    {BadBody} \cup
    {[ok |-> TRUE, email |-> <<97>>, password |-> <<112>>, role |-> r] :
        r \in {"", "admin"}}
ClientAdminBodies ==
    {BadBody, [ok |-> TRUE, email |-> <<97>>, password |-> <<112>>, role |-> ""]}

\* Registrations of plain users with "p" under each of the emails.
EachEmailBodies ==
    {[ok |-> TRUE, email |-> e, password |-> <<112>>, role |-> ""] : e \in Emails}

\* A malformed body, and registrations of "a" with "p" that ask for each
\* role a body can name: none, user, admin, and one that is neither.
EachRoleBodies ==
    {BadBody} \cup
    {[ok |-> TRUE, email |-> <<97>>, password |-> <<112>>, role |-> r] :
        r \in {"", "user", "admin", "root"}}

\* Token strings nobody issued: signed with another secret, or unsigned.
ForgedClaims ==
    [userID |-> Hex(NewObjectID(1)), email |-> <<97>>, role |-> "admin",
     exp |-> 4 * TokenTTLSeconds]
ForgedToken == SignedString(ForgedClaims, "attacker-secret")
NoneAlgToken == [kind |-> "jwt", alg |-> "none", claims |-> ForgedClaims, sig |-> NoSig]

\* An issued token with the role claim rewritten and the signature kept.
Tampered(tok) ==
    [tok EXCEPT !.claims.role = IF @ = "admin" THEN "user" ELSE "admin"]

\* Headers that carry one of the given token strings as it is, with and
\* without the "Bearer " prefix.
GoodForm(tokens) == {[bearer |-> b, cred |-> c] : b \in {0, 1}, c \in tokens}

\* Headers no gate may accept, whatever the time: missing or empty, "Bearer "
\* alone, not a token, a token signed with another secret or not signed, an
\* issued token with edited claims, an issued token behind a doubled prefix.
BadForm(tokens) ==
    {NoHeader, [bearer |-> 1, cred |-> EmptyToken],
     [bearer |-> 1, cred |-> GarbageToken], [bearer |-> 1, cred |-> ForgedToken],
     [bearer |-> 1, cred |-> NoneAlgToken]}
    \cup {[bearer |-> 1, cred |-> Tampered(c)] : c \in tokens}
    \cup {[bearer |-> 2, cred |-> c] : c \in tokens}

Headers(tokens) == GoodForm(tokens) \cup BadForm(tokens)

\* The headers that requests carry in the runs explored: none, a forged
\* token, a token the client holds.
ClientHeaders(tokens) ==
    {NoHeader, [bearer |-> 1, cred |-> ForgedToken]}
    \cup {[bearer |-> 1, cred |-> c] : c \in tokens}

\* Identifiers in paths and bodies: the hex of each ObjectID, "", "zz".
IdStrings == {Hex(NewObjectID(n)) : n \in 1..MaxIds} \cup {<<>>, <<122, 122>>}

\* Bodies of the admin-service's PUT /users/{id}/role.
BadRoleBody == [ok |-> FALSE, role |-> ""]
RoleBodies ==
    {BadRoleBody} \cup
    {[ok |-> TRUE, role |-> r] : r \in {"", "user", "admin", "root"}}

\* Bodies of the user-service's PUT /profile.
BadProfileBody == [ok |-> FALSE, email |-> <<>>]
ProfileBodies ==
    {BadProfileBody} \cup {[ok |-> TRUE, email |-> e] : e \in Emails}

\* Bodies of the monolith's POST /admin/users/delete.
BadMonolithDeleteBody == [ok |-> FALSE, user_id |-> <<>>]
MonolithDeleteBodies ==
    {BadMonolithDeleteBody} \cup
    {[ok |-> TRUE, user_id |-> i] : i \in IdStrings}

\* Bodies of the monolith's PUT /admin/users/role.
BadMonolithRoleBody == [ok |-> FALSE, user_id |-> <<>>, role |-> ""]
MonolithRoleBodies ==
    {BadMonolithRoleBody} \cup
    {[ok |-> TRUE, user_id |-> i, role |-> r] :
        i \in IdStrings, r \in {"", "user", "admin", "root"}}

\* Bodies of the monolith's PUT /user/profile.
BadMonolithProfileBody == [ok |-> FALSE, email |-> <<>>, password |-> <<>>]
MonolithProfileBodies ==
    {BadMonolithProfileBody} \cup
    {[ok |-> TRUE, email |-> e, password |-> p] : e \in Emails, p \in Passwords}

\* The page and limit query parameters in the runs explored: absent, "2"; absent, "1".
ClientPages == {<<>>, <<50>>}
ClientLimits == {<<>>, <<49>>}

\* The two together: both absent, or page "2" with limit "1".
NoPaging == [page |-> <<>>, limit |-> <<>>]
ClientPaging == {NoPaging, [page |-> <<50>>, limit |-> <<49>>]}

\* math.MaxInt in decimal digits: "9223372036854775807".
MaxIntDigits ==
    <<57, 50, 50, 51, 51, 55, 50, 48, 51, 54, 56, 53, 52, 55, 55, 53, 56, 48, 55>>

\* Values of the page and limit query parameters: absent, "0", "2", "x",
\* "-3", "65537", the largest int, and the number after it.
PageQueries ==
    {<<>>, <<48>>, <<50>>, <<120>>, <<45, 51>>, <<54, 53, 53, 51, 55>>,
     MaxIntDigits, [MaxIntDigits EXCEPT ![19] = 56]}
\* absent, "1", "101", "-1", "100", "0", "x"
LimitQueries ==
    {<<>>, <<49>>, <<49, 48, 49>>, <<45, 49>>, <<49, 48, 48>>, <<48>>, <<120>>}

(***************************************************************************)
(* Clients, connections and the initial state.                             *)
(***************************************************************************)
\* The token strings that clients hold.
Held == {i.token : i \in issued}

\* Connections that the server handles at once, each in its own goroutine.
Procs == 1..MaxProcs
Idle == [stage |-> "idle", req |-> BadBody]

\* No call of the cipher under way.
NoCipher ==
    [stage |-> "off", plain |-> <<>>, key |-> <<>>, iv |-> <<>>, token |-> <<>>,
     encErr |-> FALSE, origin |-> "none", dkey |-> <<>>, out |-> <<>>,
     err |-> FALSE]

\* The servers as they start: an empty collection, no token handed out.
Started ==
    /\ users = <<>>
    /\ nextId = 1
    /\ now = 0
    /\ issued = {}
    /\ last = [op |-> "none", status |-> 0]
    /\ pending = [p \in Procs |-> Idle]

Init ==
    /\ Started
    /\ cipher = NoCipher

\* A handler that may return a token, which the client may keep.
Issuing(op, resp) ==
    /\ last' = [op |-> op, status |-> resp.status]
    /\ \/ issued' = issued
       \/ /\ resp.token.kind = "jwt"
          /\ Cardinality(issued) < MaxTokens
          /\ issued' = issued \cup {[token |-> resp.token, at |-> now]}
    /\ UNCHANGED <<users, nextId, now, pending, cipher>>

HandleLogin ==
    \E req \in CredentialBodies, fault \in LoginFaults :
        Issuing("Login", Login(users, now, req, fault))

HandleAdminLogin ==
    \E req \in CredentialBodies, fault \in LoginFaults :
        Issuing("AdminLogin", AdminLogin(users, now, req, fault))

\* A request on a protected route.
Serving(op, r) ==
    /\ users' = r.users
    /\ last' = [op |-> op, status |-> r.resp.status]
    /\ UNCHANGED <<nextId, now, issued, pending, cipher>>

\* Whether a request on an admin-service route gets past both gates.
AdminServiceAdmits(h, t) ==
    /\ AdminServiceJWTAuthMiddleware(h, t).pass
    /\ AdminOnlyMiddleware(AdminServiceJWTAuthMiddleware(h, t).ctx).pass

\* Whether a monolith admin handler gets past its role check, which comes
\* before it reads the body.
MonolithAdmits(h, t) ==
    /\ MonolithJWTAuthMiddleware(h, t).pass
    /\ MonolithJWTAuthMiddleware(h, t).ctx.claims.role = "admin"

\* What a request carries besides its header.  A request turned away on its
\* header has had nothing else read, so one value stands for all of them.
Rest(pass, S, z) == IF pass THEN S ELSE {z}

HandleGetUserProfile ==
    \E h \in ClientHeaders(Held) :
    \E fault \in Rest(JWTAuthMiddleware(h, now).pass, {"none", "find"}, "none") :
        Serving("GetUserProfile",
                UserServiceRoute(users, h, now, "GetUserProfile",
                                 GetUserProfile(users, UserServiceCtx(h, now), fault)))

HandleUpdateUserProfile ==
    \E h \in ClientHeaders(Held), iv \in IVs :
    \E req \in Rest(JWTAuthMiddleware(h, now).pass, ProfileBodies, BadProfileBody),
       fault \in Rest(JWTAuthMiddleware(h, now).pass, {"none", "update"}, "none") :
        Serving("UpdateUserProfile",
                UserServiceRoute(users, h, now, "UpdateUserProfile",
                                 UpdateUserProfile(users, now, UserServiceCtx(h, now), req,
                                                   fault, iv)))

HandleListUsers ==
    \E h \in ClientHeaders(Held) :
    \E fault \in Rest(AdminServiceAdmits(h, now),
                      {"none", "find", "decode"}, "none") :
        Serving("ListUsers",
                AdminServiceRoute(users, h, now, "ListUsers",
                                  ListUsers(users, AdminServiceCtx(h, now), fault)))

HandleDeleteUser ==
    \E h \in ClientHeaders(Held) :
    \E id \in Rest(AdminServiceAdmits(h, now), IdStrings, <<>>),
       fault \in Rest(AdminServiceAdmits(h, now),
                      {"none", "delete"}, "none") :
        Serving("DeleteUser",
                AdminServiceRoute(users, h, now, "DeleteUser",
                                  DeleteUser(users, id, fault)))

HandleUpdateUserRole ==
    \E h \in ClientHeaders(Held) :
    \E id \in Rest(AdminServiceAdmits(h, now), IdStrings, <<>>),
       req \in Rest(AdminServiceAdmits(h, now), RoleBodies,
                    BadRoleBody),
       fault \in Rest(AdminServiceAdmits(h, now),
                      {"none", "update"}, "none") :
        Serving("UpdateUserRole",
                AdminServiceRoute(users, h, now, "UpdateUserRole",
                                  UpdateUserRole(users, now, id, req,
                                                 fault)))

HandleMonolithDeleteUser ==
    \E h \in ClientHeaders(Held) :
    \E req \in Rest(MonolithAdmits(h, now), MonolithDeleteBodies,
                    BadMonolithDeleteBody),
       fault \in Rest(MonolithAdmits(h, now),
                      {"none", "delete"}, "none") :
        Serving("MonolithDeleteUser",
                MonolithRoute(users, h, now, "DeleteUser",
                              MonolithDeleteUser(users, MonolithCtx(h, now), req, fault)))

HandleMonolithUpdateUserRole ==
    \E h \in ClientHeaders(Held) :
    \E req \in Rest(MonolithAdmits(h, now), MonolithRoleBodies,
                    BadMonolithRoleBody),
       fault \in Rest(MonolithAdmits(h, now),
                      {"none", "update"}, "none") :
        Serving("MonolithUpdateUserRole",
                MonolithRoute(users, h, now, "UpdateUserRole",
                              MonolithUpdateUserRole(users, now, MonolithCtx(h, now), req,
                                                     fault)))

HandleMonolithGetUserProfile ==
    \E h \in ClientHeaders(Held) :
    \E fault \in Rest(MonolithJWTAuthMiddleware(h, now).pass, {"none", "find"},
                      "none") :
        Serving("MonolithGetUserProfile",
                MonolithRoute(users, h, now, "GetUserProfile",
                              MonolithGetUserProfile(users, MonolithCtx(h, now), fault)))

(***************************************************************************)
(* Handlers that call the store twice.  net/http serves each connection in *)
(* its own goroutine, so between the two calls of one request any step of  *)
(* another request may run: each of these handlers is two steps, and       *)
(* pending keeps what the goroutine holds between them.                    *)
(***************************************************************************)
\* Whether connection p can take a request.
Free(p) == pending[p].stage \in {"idle", "answered"}

\* The response is written, which ends the request on connection p.
Answering(op, p, resp) ==
    /\ last' = [op |-> op, status |-> resp.status]
    /\ pending' = [pending EXCEPT ![p] = Idle]

\* The request on connection p has its first answer from the store.
Waiting(p, stage, req) ==
    /\ pending' = [pending EXCEPT ![p] = [stage |-> stage, req |-> req]]
    /\ UNCHANGED last

\* The second half of a handler that may insert one document.
Inserting(op, p, r) ==
    /\ Len(r.users) > Len(users) => nextId <= MaxIds
    /\ users' = r.users
    /\ nextId' = IF Len(r.users) > Len(users) THEN nextId + 1 ELSE nextId
    /\ Answering(op, p, r.resp)
    /\ UNCHANGED <<now, issued, cipher>>

\* Register up to the answer of its FindOne, for a request with one of
\* these bodies.
RegisterBeginWith(p, bodies) ==
    /\ Free(p)
    /\ \E req \in bodies, fault \in {"none", "find"} :
        LET c == RegisterCheck(users, req, fault)
        IN  IF c.done
            THEN Answering("Register", p, c.resp)
            ELSE Waiting(p, "checked", req)
    /\ UNCHANGED <<users, nextId, now, issued, cipher>>

RegisterBegin(p) == RegisterBeginWith(p, ClientRegisterBodies)

\* Register from the FindOne that found nothing to the response.
RegisterEnd(p) ==
    /\ pending[p].stage = "checked"
    /\ \E fault \in {"none", "hash", "encrypt", "insert"}, iv \in IVs,
          salt \in Salts :
        Inserting("Register", p,
                  RegisterCreate(users, now, NewObjectID(nextId), pending[p].req,
                                 fault, iv, salt))

\* AdminRegister up to the answer of its FindOne.
AdminRegisterBegin(p) ==
    /\ Free(p)
    /\ \E req \in ClientAdminBodies, fault \in {"none", "find"} :
        LET c == AdminRegisterCheck(users, req, fault)
        IN  IF c.done
            THEN Answering("AdminRegister", p, c.resp)
            ELSE Waiting(p, "adminChecked", req)
    /\ UNCHANGED <<users, nextId, now, issued, cipher>>

\* AdminRegister from the FindOne that found nothing to the response.
AdminRegisterEnd(p) ==
    /\ pending[p].stage = "adminChecked"
    /\ \E fault \in {"none", "hash", "encrypt", "insert"}, iv \in IVs,
          salt \in Salts :
        Inserting("AdminRegister", p,
                  AdminRegisterCreate(users, now, NewObjectID(nextId),
                                      pending[p].req, fault, iv, salt))

\* The monolith's ListUsers up to the answer of CountDocuments.
MonolithListUsersBegin(p) ==
    /\ Free(p)
    /\ \E h \in ClientHeaders(Held) :
       \E q \in Rest(MonolithAdmits(h, now), ClientPaging, NoPaging),
          fault \in Rest(MonolithAdmits(h, now), {"none", "count"}, "none") :
        LET c == MonolithListUsersCount(users, MonolithCtx(h, now), fault)
            r == MonolithRoute(users, h, now, "ListUsers",
                               [users |-> users, resp |-> c.resp])
        IN  IF ~MonolithJWTAuthMiddleware(h, now).pass \/ c.done
            THEN Answering("MonolithListUsers", p, r.resp)
            ELSE Waiting(p, "counted",
                         [total |-> c.total, page |-> q.page, limit |-> q.limit])
    /\ UNCHANGED <<users, nextId, now, issued, cipher>>

\* The monolith's ListUsers from its Find to the response.
MonolithListUsersEnd(p) ==
    /\ pending[p].stage = "counted"
    /\ \E fault \in {"none", "find", "decode"},
          sorted \in SortNewestFirst(users) :
        LET q == pending[p].req
        IN  Answering("MonolithListUsers", p,
                      MonolithListUsersFind(users, q.total, q.page, q.limit,
                                            fault, sorted).resp)
    /\ UNCHANGED <<users, nextId, now, issued, cipher>>

\* What the monolith's UpdateUserProfile does, after its check c, before it
\* waits for its second store call: answered by the handler, or parked with
\* what the handler holds.  A request that names no email makes one store
\* call, the UpdateOne, and is answered here.
MonolithUpdateUserProfileParked(us, c, password, fault, salt) ==
    IF c.done \/ ~c.set.named
    THEN [parked |-> FALSE, req |-> <<>>] @@
         MonolithUpdateUserProfileAfter(us, c, password, fault, salt)
    ELSE [parked |-> TRUE, users |-> us, resp |-> c.resp,
          req |-> [id |-> c.id, set |-> c.set, password |-> password]]

\* The same behind the gate, whose decision is g.
MonolithUpdateUserProfileFirst(us, t, g, req, fault, iv, salt) ==
    IF ~g.pass
    THEN [parked |-> FALSE, req |-> <<>>, users |-> us, resp |-> g.resp]
    ELSE MonolithUpdateUserProfileParked(
             us, MonolithUpdateUserProfileCheck(us, t, g.ctx, req, fault, iv),
             req.password, fault, salt)

\* The monolith's UpdateUserProfile up to the answer of CountDocuments.
MonolithUpdateUserProfileBegin(p) ==
    /\ Free(p)
    /\ \E h \in ClientHeaders(Held), iv \in IVs, salt \in Salts :
       \E req \in Rest(MonolithJWTAuthMiddleware(h, now).pass,
                       MonolithProfileBodies, BadMonolithProfileBody),
          fault \in Rest(MonolithJWTAuthMiddleware(h, now).pass,
                         {"none", "count", "update"}, "none") :
        \E f \in {MonolithUpdateUserProfileFirst(
                      users, now, MonolithJWTAuthMiddleware(h, now), req, fault,
                      iv, salt)} :
            IF f.parked
            THEN /\ fault # "update"
                 /\ Waiting(p, "available", f.req)
                 /\ UNCHANGED users
            ELSE /\ users' = f.users
                 /\ Answering("MonolithUpdateUserProfile", p, f.resp)
    /\ UNCHANGED <<nextId, now, issued, cipher>>

\* The monolith's UpdateUserProfile from the count of zero to the response.
MonolithUpdateUserProfileEnd(p) ==
    /\ pending[p].stage = "available"
    /\ \E fault \in {"none", "update"}, salt \in Salts :
        \E r \in {MonolithUpdateUserProfileUpdate(
                      users, pending[p].req.id, pending[p].req.set,
                      pending[p].req.password, fault, salt)} :
            /\ users' = r.users
            /\ Answering("MonolithUpdateUserProfile", p, r.resp)
    /\ UNCHANGED <<nextId, now, issued, cipher>>

\* The clock moves on by one tick.
Tick ==
    /\ \/ now < MaxClock
       \/ now >= TokenTTL - TicksPerSecond /\ now < TokenTTL + MaxClock
    /\ now' = now + 1
    /\ UNCHANGED <<users, nextId, issued, last, pending, cipher>>

\* Nothing happens for one second less than the life of a token.
Sleep ==
    /\ now <= MaxClock
    /\ now' = now + TokenTTL - TicksPerSecond
    /\ UNCHANGED <<users, nextId, issued, last, pending, cipher>>

(***************************************************************************)
(* The three services on one collection: the auth-service registers and    *)
(* logs in, the user-service serves the profile, the admin-service lists,  *)
(* deletes and changes roles.  The clock stands still.                     *)
(***************************************************************************)
Next ==
    \/ \E p \in Procs : RegisterBegin(p)
    \/ \E p \in Procs : RegisterEnd(p)
    \/ \E p \in Procs : AdminRegisterBegin(p)
    \/ \E p \in Procs : AdminRegisterEnd(p)
    \/ HandleLogin
    \/ HandleAdminLogin
    \/ HandleGetUserProfile
    \/ HandleUpdateUserProfile
    \/ HandleListUsers
    \/ HandleDeleteUser
    \/ HandleUpdateUserRole

Spec == Init /\ [][Next]_vars

(***************************************************************************)
(* The auth-service alone.                                                 *)
(***************************************************************************)
NextAuth ==
    \/ \E p \in Procs : RegisterBegin(p)
    \/ \E p \in Procs : RegisterEnd(p)
    \/ \E p \in Procs : AdminRegisterBegin(p)
    \/ \E p \in Procs : AdminRegisterEnd(p)
    \/ HandleLogin
    \/ HandleAdminLogin

SpecAuth == Init /\ [][NextAuth]_vars

(***************************************************************************)
(* The monolith's protected routes, on the collection that Register fills  *)
(* and with the tokens that Login signs.                                   *)
(***************************************************************************)
NextMonolith ==
    \/ \E p \in Procs : RegisterBegin(p)
    \/ \E p \in Procs : RegisterEnd(p)
    \/ HandleLogin
    \/ \E p \in Procs : MonolithListUsersBegin(p)
    \/ \E p \in Procs : MonolithListUsersEnd(p)
    \/ HandleMonolithDeleteUser
    \/ HandleMonolithUpdateUserRole
    \/ HandleMonolithGetUserProfile
    \/ \E p \in Procs : MonolithUpdateUserProfileBegin(p)
    \/ \E p \in Procs : MonolithUpdateUserProfileEnd(p)

SpecMonolith == Init /\ [][NextMonolith]_vars

(***************************************************************************)
(* One request at a time: a request is taken only when no other is between *)
(* its two store calls.                                                    *)
(***************************************************************************)
Quiet == \A p \in Procs : Free(p)

NextSerial ==
    \/ \E p \in Procs : Quiet /\ RegisterBegin(p)
    \/ \E p \in Procs : RegisterEnd(p)
    \/ \E p \in Procs : Quiet /\ AdminRegisterBegin(p)
    \/ \E p \in Procs : AdminRegisterEnd(p)
    \/ Quiet /\ HandleLogin
    \/ Quiet /\ HandleUpdateUserProfile
    \/ Quiet /\ HandleDeleteUser

SpecSerial == Init /\ [][NextSerial]_vars

(***************************************************************************)
(* The user-service behind the auth-service: users register under each of  *)
(* the emails, log in, and read and change their profiles.                 *)
(***************************************************************************)
NextProfile ==
    \/ \E p \in Procs : RegisterBeginWith(p, EachEmailBodies)
    \/ \E p \in Procs : RegisterEnd(p)
    \/ HandleLogin
    \/ HandleGetUserProfile
    \/ HandleUpdateUserProfile

SpecProfile == Init /\ [][NextProfile]_vars

(***************************************************************************)
(* Every operation that writes a record, in the services and in the        *)
(* monolith, over one collection: Register with each role a body can name, *)
(* AdminRegister, both UpdateUserRole, both UpdateUserProfile and both     *)
(* DeleteUser, with Login to issue the tokens they are called with.        *)
(***************************************************************************)
NextRoles ==
    \/ \E p \in Procs : RegisterBeginWith(p, EachRoleBodies)
    \/ \E p \in Procs : RegisterEnd(p)
    \/ \E p \in Procs : AdminRegisterBegin(p)
    \/ \E p \in Procs : AdminRegisterEnd(p)
    \/ HandleLogin
    \/ HandleUpdateUserRole
    \/ HandleMonolithUpdateUserRole
    \/ HandleUpdateUserProfile
    \/ \E p \in Procs : MonolithUpdateUserProfileBegin(p)
    \/ \E p \in Procs : MonolithUpdateUserProfileEnd(p)
    \/ HandleDeleteUser
    \/ HandleMonolithDeleteUser

SpecRoles == Init /\ [][NextRoles]_vars

(***************************************************************************)
(* Tokens over time: the auth-service issues, the clock runs, the          *)
(* user-service's gate decides.  Login and AdminLogin sign the same claims *)
(* for one record, so one of them stands for the issuing of both.          *)
(***************************************************************************)
NextToken ==
    \/ \E p \in Procs : AdminRegisterBegin(p)
    \/ \E p \in Procs : AdminRegisterEnd(p)
    \/ HandleLogin
    \/ HandleGetUserProfile
    \/ Tick
    \/ Sleep

SpecToken == Init /\ [][NextToken]_vars

(***************************************************************************)
(* Tokens that outlive their record: admins are registered and log in,     *)
(* records are deleted and demoted through the monolith, most of a token's *)
(* life goes by, and the gates decide.                                     *)
(***************************************************************************)
NextRevocation ==
    \/ \E p \in Procs : AdminRegisterBegin(p)
    \/ \E p \in Procs : AdminRegisterEnd(p)
    \/ HandleAdminLogin
    \/ HandleGetUserProfile
    \/ HandleMonolithDeleteUser
    \/ HandleMonolithUpdateUserRole
    \/ Sleep

SpecRevocation == Init /\ [][NextRevocation]_vars

(***************************************************************************)
(* The gate and the form of the header: users register and log in, and     *)
(* connections ask the user-service for the profile with headers of every  *)
(* form.  pending keeps, for each connection that is not between two store *)
(* calls, the header of its last request for the profile and the status it *)
(* was answered with.                                                      *)
(***************************************************************************)
ServeProfile(p) ==
    /\ Free(p)
    /\ \E h \in Headers(Held) :
        LET r == UserServiceRoute(users, h, now, "GetUserProfile",
                     GetUserProfile(users, UserServiceCtx(h, now), "none"))
        IN  /\ pending' = [pending EXCEPT ![p] = [stage |-> "answered",
                                                   req |-> h,
                                                   status |-> r.resp.status]]
            /\ last' = [op |-> "GetUserProfile", status |-> r.resp.status]
            /\ UNCHANGED <<users, nextId, now, issued, cipher>>

NextGate ==
    \/ \E p \in Procs : RegisterBegin(p)
    \/ \E p \in Procs : RegisterEnd(p)
    \/ HandleLogin
    \/ \E p \in Procs : ServeProfile(p)

SpecGate == Init /\ [][NextGate]_vars

(***************************************************************************)
(* The field cipher on its own: one call of utils.Encrypt, or a string     *)
(* from elsewhere, then possibly one byte of the ciphertext changed, then  *)
(* one call of utils.Decrypt.                                              *)
(***************************************************************************)
\* Keys: the two configured ones, and keys of 0, 16, 31 and 33 bytes.
CipherKeys ==
    {SharedEncryptionKey, MonolithEncryptionKey, <<>>,
     SubSeq(SharedEncryptionKey, 1, BlockSize),
     SubSeq(SharedEncryptionKey, 1, KeyLen - 1),
     SharedEncryptionKey \o <<33>>}

\* A plaintext of n bytes.
LongPlain(n) == [i \in 1..n |-> 97 + (i % 3)]

\* Plaintexts: every string of a's and b's up to MaxPlainLen, and strings
\* that end just before, at and just after a block boundary.
Plaintexts ==
    UNION {[1..n -> {97, 98}] : n \in 0..MaxPlainLen}
    \cup {LongPlain(n) : n \in {BlockSize - 1, BlockSize, BlockSize + 1,
                                 2 * BlockSize, 2 * BlockSize + 1}}


\* Strings that did not come from Encrypt: "", "A", "AAAA", "AA=A", "AAA!",
\* "AAAA" and a line feed, 20 A's (15 bytes), 22 A's and "==" (16 bytes),
\* 24 A's (18 bytes).
ForeignTokens ==
    {<<>>, <<65>>, <<65, 65, 65, 65>>, <<65, 65, 61, 65>>, <<65, 65, 65, 33>>,
     <<65, 65, 65, 65, 10>>, [i \in 1..20 |-> 65],
     [i \in 1..24 |-> IF i > 22 THEN PadChar ELSE 65], [i \in 1..24 |-> 65]}

\* The token with byte j of its ciphertext (IV included) XORed with mask.
AlterByte(token, j, mask) ==
    LET b == Base64Decode(token).bytes
    IN  Base64Encode([b EXCEPT ![j] = Xor(@, mask)])

\* The bytes that get altered: the first and last of the IV, the first and
\* last after it.
AlterPositions(n) == {j \in {1, BlockSize, BlockSize + 1, n} : j <= n}

InitCipher ==
    /\ Started
    /\ \E p \in Plaintexts, k \in CipherKeys, iv \in CipherIVs :
           cipher = [NoCipher EXCEPT !.stage = "input", !.plain = p, !.key = k,
                                     !.iv = iv]

CipherEncrypt ==
    /\ cipher.stage = "input"
    /\ LET e == Encrypt(cipher.plain, cipher.key, cipher.iv)
       IN  cipher' = [cipher EXCEPT !.stage = "token", !.token = e.out,
                                    !.encErr = e.err, !.origin = "Encrypt"]
    /\ UNCHANGED <<users, nextId, now, issued, last, pending>>

CipherReceive ==
    /\ cipher.stage = "input"
    /\ \E t \in ForeignTokens :
           cipher' = [cipher EXCEPT !.stage = "token", !.token = t,
                                    !.origin = "foreign"]
    /\ UNCHANGED <<users, nextId, now, issued, last, pending>>

CipherAlter ==
    /\ cipher.stage = "token"
    /\ cipher.origin = "Encrypt"
    /\ ~cipher.encErr
    /\ \E j \in AlterPositions(BlockSize + Len(cipher.plain)), mask \in {1, 255} :
           cipher' = [cipher EXCEPT !.token = AlterByte(@, j, mask),
                                    !.origin = "altered"]
    /\ UNCHANGED <<users, nextId, now, issued, last, pending>>

CipherDecrypt ==
    /\ cipher.stage = "token"
    /\ \E k \in CipherKeys :
           LET d == Decrypt(cipher.token, k)
           IN  cipher' = [cipher EXCEPT !.stage = "plain", !.dkey = k,
                                        !.out = d.out, !.err = d.err]
    /\ UNCHANGED <<users, nextId, now, issued, last, pending>>

NextCipher ==
    \/ CipherEncrypt
    \/ CipherReceive
    \/ CipherAlter
    \/ CipherDecrypt

SpecCipher == InitCipher /\ [][NextCipher]_vars

(***************************************************************************)
(* Properties.                                                             *)
(***************************************************************************)
\* The emails whose lookup key some stored record carries.
Stored(email) == \E i \in 1..Len(users) : users[i].email_hash = email

\* A body of /login or /admin/login.
Credentials(email, password) ==
    [ok |-> TRUE, email |-> email, password |-> password, role |-> ""]

\* C1: when calls run one after another, a Register or AdminRegister call
\* whose email equals the lookup key of a stored record answers 409 Conflict
\* and inserts nothing: the store is as it was before the call.
DuplicateRegistrationConflicts ==
    \A fault \in {"none", "insert"}, iv \in IVs, salt \in Salts :
        /\ \A req \in RegisterBodies :
               (req.ok /\ Stored(req.email)) =>
                   LET r == Register(users, now, NewObjectID(nextId), req, fault,
                                     iv, salt)
                   IN  r.resp.status = StatusConflict /\ r.users = users
        /\ \A req \in CredentialBodies :
               (req.ok /\ Stored(req.email)) =>
                   LET r == AdminRegister(users, now, NewObjectID(nextId), req,
                                          fault, iv, salt)
                   IN  r.resp.status = StatusConflict /\ r.users = users

\* A second registration of a stored email has just been answered 409.
DuplicateRegistrationSeen ==
    /\ last = [op |-> "Register", status |-> StatusConflict]
    /\ Len(users) > 0

\* C3: every record that Register creates has role user, whatever the role
\* field of the request says; role admin comes only from AdminRegister.
RegisterCreatesOnlyUsers ==
    \A req \in RegisterBodies, iv \in IVs, salt \in Salts :
        LET r == Register(users, now, NewObjectID(nextId), req, "none", iv, salt)
        IN  Len(r.users) > Len(users) => r.users[Len(r.users)].role = "user"

\* C4: after any sequence of Register, AdminRegister, UpdateUserRole,
\* UpdateUserProfile and DeleteUser calls, every stored record's role is
\* exactly user or admin.
RolesAreUserOrAdmin ==
    \A i \in 1..Len(users) : users[i].role \in {"user", "admin"}

\* A role update in the monolith has just gone through, asked for with an
\* admin's token, and a record has role user.
RoleUpdateSeen ==
    /\ last.op = "MonolithUpdateUserRole"
    /\ last.status = StatusOK
    /\ \E i \in 1..Len(users) : users[i].role = "user"
    /\ \E i \in issued : i.token.claims.role = "admin"

\* C5: a Register with no role field on an email not yet stored is
\* acknowledged without a token, and a Login with the same email and
\* password then succeeds with a token and role user.
RegisterThenLoginSucceeds ==
    \A e \in Emails, pw \in Passwords, iv \in IVs, salt \in Salts :
        ~Stored(e) =>
            LET r == Register(users, now, NewObjectID(nextId),
                              Credentials(e, pw), "none", iv, salt)
                l == Login(r.users, now, Credentials(e, pw), "none")
            IN  /\ r.resp.status = StatusOK
                /\ r.resp.token = NoToken
                /\ Len(r.users) = Len(users) + 1
                /\ l.status = StatusOK
                /\ l.token.kind = "jwt"
                /\ ParseValid(l.token, Cfg.JWTSecret, now)
                /\ l.role = "user"
                /\ l.token.claims.role = "user"

\* Every account is a plain user's, one of them has just logged in and its
\* token is held.
UserLoginSeen ==
    /\ last = [op |-> "Login", status |-> StatusOK]
    /\ Len(users) > 0
    /\ \A i \in 1..Len(users) : users[i].role = "user"
    /\ \E i \in issued : i.token.claims.role = "user"

\* C6: Login answers a stored email with a wrong password exactly as it
\* answers an email that has no record: 401 and the same body.
LoginHidesWhetherEmailIsStored ==
    \A e1 \in Emails, p1 \in Passwords, e2 \in Emails, p2 \in Passwords :
        LET i == FindOneByEmailHash(users, e1)
        IN  (/\ Stored(e1)
             /\ ~CompareHashAndPassword(users[i].password, p1)
             /\ ~Stored(e2)) =>
                /\ Login(users, now, Credentials(e1, p1), "none").status
                       = StatusUnauthorized
                /\ Login(users, now, Credentials(e1, p1), "none")
                       = Login(users, now, Credentials(e2, p2), "none")

\* A Login has just been refused while one of the emails is stored and
\* another is not.
RefusedLoginSeen ==
    /\ last = [op |-> "Login", status |-> StatusUnauthorized]
    /\ \E e1 \in Emails, e2 \in Emails : Stored(e1) /\ ~Stored(e2)

\* C7: AdminLogin verifies the password before it looks at the role: a
\* wrong password for a stored record of any role is answered 401, and 403
\* is answered only when the password matches and the role is not admin.
AdminLoginChecksPasswordFirst ==
    \A e \in Emails, pw \in Passwords :
        Stored(e) =>
            LET u == users[FindOneByEmailHash(users, e)]
                l == AdminLogin(users, now, Credentials(e, pw), "none")
            IN  /\ ~CompareHashAndPassword(u.password, pw)
                       => l.status = StatusUnauthorized
                /\ l.status = StatusForbidden
                       => (CompareHashAndPassword(u.password, pw)
                           /\ u.role # "admin")

\* C2: two Register calls with the same email that run together can both
\* finish their lookup before either inserts; whatever has been stored since
\* its lookup, a call that passed it inserts its record and answers success,
\* so two records can come to share one lookup key.
CheckedRegisterInserts ==
    \A p \in Procs, iv \in IVs, salt \in Salts :
        pending[p].stage = "checked" =>
            LET r == RegisterCreate(users, now, NewObjectID(nextId),
                                    pending[p].req, "none", iv, salt)
            IN  /\ r.resp.status = StatusOK
                /\ Len(r.users) = Len(users) + 1
                /\ r.users[Len(r.users)].email_hash = pending[p].req.email

\* Two calls have answered and two records share one lookup key.
DuplicateKeyStored ==
    /\ last = [op |-> "Register", status |-> StatusOK]
    /\ \A p \in Procs : pending[p] = Idle
    /\ \E i \in 1..Len(users), j \in 1..Len(users) :
           i < j /\ users[i].email_hash = users[j].email_hash

\* A token the server signed that had run out before the run began.
StaleToken ==
    SignedString([userID |-> Hex(NewObjectID(1)), email |-> <<97>>,
                  role |-> "admin", exp |-> 0], Cfg.JWTSecret)

\* Headers a gate must turn away at time t: none or empty, a malformed or
\* forged or edited token, a token whose expiry has passed.
RefusedHeaders(t) ==
    BadForm(Held) \cup {[bearer |-> 1, cred |-> StaleToken]}
    \cup {h \in GoodForm(Held) : Unix(t) >= h.cred.claims.exp}

\* The gate answered 401 and nothing behind it ran.
Refused(r) ==
    /\ r.resp.status = StatusUnauthorized
    /\ r.trace = <<"JWTAuthMiddleware">>
    /\ r.resp.calls = <<>>
    /\ r.users = users

\* C8: on every protected route, of the user-service and of the monolith, a
\* request whose Authorization header is missing or empty, or whose token is
\* expired, signed with another secret or malformed, is answered 401 and its
\* handler is never invoked.
BadTokensAreRefused ==
    \A h \in RefusedHeaders(now), iv \in IVs, salt \in Salts :
        /\ Refused(UserServiceRoute(users, h, now, "GetUserProfile",
                GetUserProfile(users, UserServiceCtx(h, now), "none")))
        /\ Refused(MonolithRoute(users, h, now, "GetUserProfile",
                MonolithGetUserProfile(users, MonolithCtx(h, now), "none")))
        /\ \A sorted \in SortNewestFirst(users) :
               Refused(MonolithRoute(users, h, now, "ListUsers",
                   MonolithListUsers(users, MonolithCtx(h, now), <<>>, <<>>,
                                     "none", sorted)))
        /\ \A e \in Emails :
               /\ Refused(UserServiceRoute(users, h, now, "UpdateUserProfile",
                       UpdateUserProfile(users, now, UserServiceCtx(h, now),
                           [ok |-> TRUE, email |-> e], "none", iv)))
               /\ Refused(MonolithRoute(users, h, now, "UpdateUserProfile",
                       MonolithUpdateUserProfile(users, now, MonolithCtx(h, now),
                           [ok |-> TRUE, email |-> e, password |-> <<112>>],
                           "none", iv, salt)))
        /\ \A id \in IdStrings :
               /\ Refused(MonolithRoute(users, h, now, "DeleteUser",
                       MonolithDeleteUser(users, MonolithCtx(h, now),
                           [ok |-> TRUE, user_id |-> id], "none")))
               /\ Refused(MonolithRoute(users, h, now, "UpdateUserRole",
                       MonolithUpdateUserRole(users, now, MonolithCtx(h, now),
                           [ok |-> TRUE, user_id |-> id, role |-> "admin"],
                           "none")))

\* A delete without a good token has just been answered 401, with records
\* stored and a token held whose edited copy was among the headers to try.
RefusedDeleteSeen ==
    /\ last = [op |-> "MonolithDeleteUser", status |-> StatusUnauthorized]
    /\ Len(users) > 0
    /\ Held # {}

\* The header that carries a token after "Bearer ".
Bearer(c) == [bearer |-> 1, cred |-> c]

\* A request with this header gets past the gate of the user-service, and
\* past the monolith's.
Accepted(h, t) ==
    /\ JWTAuthMiddleware(h, t).pass
    /\ MonolithJWTAuthMiddleware(h, t).pass

\* Both gates answer a request with this header 401.
Rejected(h, t) ==
    /\ ~JWTAuthMiddleware(h, t).pass
    /\ JWTAuthMiddleware(h, t).resp.status = StatusUnauthorized
    /\ ~MonolithJWTAuthMiddleware(h, t).pass
    /\ MonolithJWTAuthMiddleware(h, t).resp.status = StatusUnauthorized

\* C9, as the claim has it: a token issued at time t is accepted by the
\* gate at every time before t + 24h and rejected with 401 at every time
\* after t + 24h.
TokenLivesExactlyADay ==
    \A i \in issued :
        /\ now < i.at + TokenTTL => Accepted(Bearer(i.token), now)
        /\ now > i.at + TokenTTL => Rejected(Bearer(i.token), now)

\* C9, as the code has it: a token issued at time t carries as expiry the
\* whole second of t plus 24 hours; the gate accepts it while the whole
\* second of the current time is before that expiry, which is up to one
\* second less than 24 hours, and rejects it with 401 from then on, so at
\* every time after t + 24h.  The token AdminLogin returns carries the
\* same expiry and is accepted at the moment it is issued.
TokenLivesUntilItsExpirySecond ==
    /\ \A e \in Emails, pw \in Passwords :
        LET c == AdminLogin(users, now, Credentials(e, pw), "none").token
        IN  c # NoToken =>
                /\ c.claims.exp = Unix(now) + TokenTTLSeconds
                /\ Accepted(Bearer(c), now)
    /\ \A i \in issued :
        /\ i.token.claims.exp = Unix(i.at) + TokenTTLSeconds
        /\ Unix(now) < Unix(i.at) + TokenTTLSeconds
               => Accepted(Bearer(i.token), now)
        /\ Unix(now) >= Unix(i.at) + TokenTTLSeconds
               => Rejected(Bearer(i.token), now)
        /\ now + TicksPerSecond <= i.at + TokenTTL
               => Accepted(Bearer(i.token), now)
        /\ now >= i.at + TokenTTL => Rejected(Bearer(i.token), now)

\* A token issued within a second has just been turned away before its 24
\* hours were over.
EarlyExpirySeen ==
    /\ last = [op |-> "GetUserProfile", status |-> StatusUnauthorized]
    /\ \E i \in issued :
           /\ i.at % TicksPerSecond # 0
           /\ now < i.at + TokenTTL
           /\ Rejected(Bearer(i.token), now)

\* The tokens that a login at this moment returns.
Issuable ==
    {Login(users, now, Credentials(e, pw), "none").token :
        e \in Emails, pw \in Passwords}
    \cup {AdminLogin(users, now, Credentials(e, pw), "none").token :
        e \in Emails, pw \in Passwords}

\* Headers with a token that verifies at time t.
ValidHeaders(t) ==
    {h \in GoodForm(Held \cup Issuable) : TokenValid(h, Cfg.JWTSecret, t)}

\* The role check answered 403 and no store call was made.
Forbidden(r) ==
    /\ r.resp.status = StatusForbidden
    /\ r.resp.calls = <<>>
    /\ r.users = users

\* The admin-service handed the request to the handler of this name.
Reached(r, name) ==
    /\ r.trace = <<"JWTAuthMiddleware", "AdminOnlyMiddleware", name>>
    /\ r.resp.status # StatusForbidden

\* The monolith's handler went past its role check to its store call.
Proceeded(r) ==
    /\ r.resp.status # StatusForbidden
    /\ r.resp.calls # <<>>

\* What the role claim of a valid token decides on an admin-only route of
\* the admin-service, and of the monolith.
AdminServiceDecides(h, r, name) ==
    IF h.cred.claims.role = "admin" THEN Reached(r, name)
    ELSE Forbidden(r) /\ r.trace = <<"JWTAuthMiddleware", "AdminOnlyMiddleware">>

MonolithDecides(h, r) ==
    IF h.cred.claims.role = "admin" THEN Proceeded(r) ELSE Forbidden(r)

\* C10: on every admin-only operation, in the admin-service and in the
\* monolith, a request with a valid token whose role claim is not admin is
\* answered 403 and makes no store call; the same request with a valid
\* admin token proceeds to the operation.
AdminOperationsNeedAdminRole ==
    \A h \in ValidHeaders(now) :
        /\ AdminServiceDecides(h,
               AdminServiceRoute(users, h, now, "ListUsers",
                   ListUsers(users, AdminServiceCtx(h, now), "none")), "ListUsers")
        /\ \A sorted \in SortNewestFirst(users) :
               MonolithDecides(h,
                   MonolithRoute(users, h, now, "ListUsers",
                       MonolithListUsers(users, MonolithCtx(h, now), <<>>, <<>>,
                                         "none", sorted)))
        /\ \A n \in 1..MaxIds :
               /\ AdminServiceDecides(h,
                      AdminServiceRoute(users, h, now, "DeleteUser",
                          DeleteUser(users, Hex(NewObjectID(n)),
                                                "none")), "DeleteUser")
               /\ MonolithDecides(h,
                      MonolithRoute(users, h, now, "DeleteUser",
                          MonolithDeleteUser(users, MonolithCtx(h, now),
                              [ok |-> TRUE, user_id |-> Hex(NewObjectID(n))],
                              "none")))
               /\ \A role \in {"user", "admin"} :
                      /\ AdminServiceDecides(h,
                             AdminServiceRoute(users, h, now, "UpdateUserRole",
                                 UpdateUserRole(users, now,
                                     Hex(NewObjectID(n)),
                                     [ok |-> TRUE, role |-> role], "none")),
                             "UpdateUserRole")
                      /\ MonolithDecides(h,
                             MonolithRoute(users, h, now, "UpdateUserRole",
                                 MonolithUpdateUserRole(users, now, MonolithCtx(h, now),
                                     [ok |-> TRUE,
                                      user_id |-> Hex(NewObjectID(n)),
                                      role |-> role], "none")))

\* A plain user's token is held, a delete in the monolith has just been
\* answered 403 and the records are still there.
ForbiddenDeleteSeen ==
    /\ last = [op |-> "MonolithDeleteUser", status |-> StatusForbidden]
    /\ \E i \in issued : i.token.claims.role = "user"
    /\ Len(users) > 0

\* C11: on every admin-only route, of the admin-service and of the monolith,
\* a request whose token is missing, expired or otherwise invalid is answered
\* 401 by the token check; the role check behind it never runs, so the
\* answer is never 403, whatever role the rejected token claims.
AuthenticationPrecedesAuthorization ==
    \A h \in RefusedHeaders(now) :
        /\ Refused(AdminServiceRoute(users, h, now, "ListUsers",
                ListUsers(users, AdminServiceCtx(h, now), "none")))
        /\ \A sorted \in SortNewestFirst(users) :
               Refused(MonolithRoute(users, h, now, "ListUsers",
                   MonolithListUsers(users, MonolithCtx(h, now), <<>>, <<>>,
                                     "none", sorted)))
        /\ \A id \in IdStrings, role \in {"user", "admin"} :
               /\ Refused(AdminServiceRoute(users, h, now, "DeleteUser",
                       DeleteUser(users, id, "none")))
               /\ Refused(AdminServiceRoute(users, h, now, "UpdateUserRole",
                       UpdateUserRole(users, now, id, [ok |-> TRUE, role |-> role],
                                      "none")))
               /\ Refused(MonolithRoute(users, h, now, "DeleteUser",
                       MonolithDeleteUser(users, MonolithCtx(h, now),
                           [ok |-> TRUE, user_id |-> id], "none")))
               /\ Refused(MonolithRoute(users, h, now, "UpdateUserRole",
                       MonolithUpdateUserRole(users, now, MonolithCtx(h, now),
                           [ok |-> TRUE, user_id |-> id, role |-> role], "none")))

\* A role update in the admin-service has just been answered 401 while a
\* plain user's token is held, whose edited copy claims the admin role.
UnauthenticatedRoleUpdateSeen ==
    /\ last = [op |-> "UpdateUserRole", status |-> StatusUnauthorized]
    /\ Len(users) > 0
    /\ \E i \in issued : i.token.claims.role = "user"

\* The record a token was issued for is no longer stored, or is stored with
\* another role than the token claims.
Outlived(tok) ==
    LET i == FindOneById(users, ObjectIDFromHex(tok.claims.userID).id)
    IN  i = 0 \/ users[i].role # tok.claims.role

\* C12: whether a gate accepts a token is decided by the token, the secret
\* and the clock alone, never by the store: a token issued before its record
\* was deleted, or demoted from admin to user, is still accepted, with the
\* role it was issued with, and still passes the admin role check, at every
\* time before its expiry.
GateNeverConsultsTheStore ==
    /\ \A h \in Headers(Held) :
           /\ JWTAuthMiddleware(h, now).pass = TokenValid(h, Cfg.JWTSecret, now)
           /\ MonolithJWTAuthMiddleware(h, now).pass
                  = TokenValid(h, MonolithCfg.JWTSecret, now)
    /\ \A i \in issued :
           LET h == Bearer(i.token)
               g == JWTAuthMiddleware(h, now)
               ls == {MonolithRoute(users, h, now, "ListUsers",
                          MonolithListUsers(users, MonolithCtx(h, now), <<>>,
                                            <<>>, "none", sorted)) :
                         sorted \in SortNewestFirst(users)}
           IN  Unix(now) < i.token.claims.exp =>
                   /\ g.pass
                   /\ g.ctx.role = i.token.claims.role
                   /\ g.ctx.userID = i.token.claims.userID
                   /\ MonolithCtx(h, now).claims = i.token.claims
                   /\ i.token.claims.role = "admin" =>
                          /\ AdminOnlyMiddleware(g.ctx).pass
                          /\ \A l \in ls : l.resp.status = StatusOK

\* Some time after it was issued, the token of an admin whose record is gone
\* or demoted has just been used to change another record's role.
OutlivedTokenStillAdmin ==
    /\ last = [op |-> "MonolithUpdateUserRole", status |-> StatusOK]
    /\ issued # {}
    /\ \A i \in issued :
           /\ i.token.claims.role = "admin"
           /\ Outlived(i.token)
           /\ now > i.at

\* C13: for every request a gate accepts, the identity, email and role that
\* the handler behind it reads from the request context are the userID,
\* email and role claims of the token presented; and those claims are, for a
\* token Login or AdminLogin returns, the identifier, the decrypted email and
\* the stored role of the record the login found.
ContextCarriesTheTokenClaims ==
    /\ \A h \in ValidHeaders(now) :
           LET g == JWTAuthMiddleware(h, now)
               c == h.cred.claims
           IN  /\ g.pass
               /\ g.ctx.userID = c.userID
               /\ g.ctx.email = c.email
               /\ g.ctx.role = c.role
               /\ MonolithJWTAuthMiddleware(h, now).pass
               /\ MonolithCtx(h, now).claims = c
    /\ \A e \in Emails, pw \in Passwords :
           LET u == users[FindOneByEmailHash(users, e)]
               expected ==
                   [userID |-> Hex(u.id),
                    email |-> Decrypt(u.email, Cfg.EncryptionKey).out,
                    role |-> u.role, exp |-> Unix(now) + TokenTTLSeconds]
               l == Login(users, now, Credentials(e, pw), "none")
               a == AdminLogin(users, now, Credentials(e, pw), "none")
           IN  /\ l.status = StatusOK =>
                      l.token.claims = expected /\ l.role = u.role
               /\ a.status = StatusOK =>
                      a.token.claims = expected /\ a.role = u.role

\* A profile has just been served to the holder of a token, read by the
\* identity that the gate put into the context.
ProfileServedSeen ==
    /\ last.op \in {"GetUserProfile", "MonolithGetUserProfile"}
    /\ last.status = StatusOK
    /\ \E i \in issued :
           FindOneById(users, ObjectIDFromHex(i.token.claims.userID).id) # 0

\* C14: for every key of exactly 32 bytes and every string s, the empty one
\* included, Decrypt of what Encrypt made of s, with the same key, returns s
\* and no error.
DecryptInvertsEncrypt ==
    (/\ cipher.stage = "plain"
     /\ cipher.origin = "Encrypt"
     /\ Len(cipher.key) = KeyLen
     /\ cipher.dkey = cipher.key) =>
        /\ ~cipher.encErr
        /\ ~cipher.err
        /\ cipher.out = cipher.plain

\* A plaintext of more than two blocks has come back as it went in.
LongRoundTripSeen ==
    /\ cipher.stage = "plain"
    /\ cipher.origin = "Encrypt"
    /\ Len(cipher.key) = KeyLen
    /\ cipher.dkey = cipher.key
    /\ Len(cipher.plain) > 2 * BlockSize
    /\ cipher.out = cipher.plain

\* C15: Decrypt never returns corrupted text without an error: for a token
\* that Encrypt made of s under one 32-byte key, Decrypt under another
\* 32-byte key, or Decrypt of the token with one ciphertext byte altered,
\* returns s or returns an error.
DecryptNeverReturnsCorruptedText ==
    (/\ cipher.stage = "plain"
     /\ Len(cipher.key) = KeyLen
     /\ Len(cipher.dkey) = KeyLen
     /\ \/ cipher.origin = "altered" /\ cipher.dkey = cipher.key
        \/ cipher.origin = "Encrypt" /\ cipher.dkey # cipher.key) =>
        cipher.err \/ cipher.out = cipher.plain

\* C16: Encrypt and Decrypt called with a key that is not exactly 32 bytes
\* long return an error and the empty string, whatever the plaintext or
\* ciphertext argument is.
BadKeyIsRefused ==
    /\ (cipher.origin = "Encrypt" /\ Len(cipher.key) # KeyLen) =>
           cipher.encErr /\ cipher.token = <<>>
    /\ (cipher.stage = "plain" /\ Len(cipher.dkey) # KeyLen) =>
           cipher.err /\ cipher.out = <<>>

\* A token made with a good key has been refused by Decrypt under a key of
\* 33 bytes.
LongKeyRefusedSeen ==
    /\ cipher.stage = "plain"
    /\ cipher.origin = "Encrypt"
    /\ Len(cipher.key) = KeyLen
    /\ Len(cipher.plain) > 0
    /\ Len(cipher.dkey) = KeyLen + 1
    /\ cipher.err

\* C17: with a key of 32 bytes, Decrypt returns an error and the empty
\* string for every token that does not base64-decode and for every token
\* that decodes to fewer than 16 bytes; a token that decodes to exactly 16
\* bytes is accepted and gives the empty plaintext.
MalformedTokensAreRefused ==
    (cipher.stage = "plain" /\ Len(cipher.dkey) = KeyLen) =>
        LET d == Base64Decode(cipher.token)
        IN  /\ (~d.ok \/ Len(d.bytes) < BlockSize) =>
                   cipher.err /\ cipher.out = <<>>
            /\ (d.ok /\ Len(d.bytes) = BlockSize) =>
                   ~cipher.err /\ cipher.out = <<>>

\* A string of 15 decoded bytes has been refused, under a 32-byte key.
ShortTokenRefusedSeen ==
    /\ cipher.stage = "plain"
    /\ cipher.origin = "foreign"
    /\ Len(cipher.dkey) = KeyLen
    /\ Base64Decode(cipher.token).ok
    /\ Len(Base64Decode(cipher.token).bytes) = BlockSize - 1
    /\ cipher.err

\* C18: Register and Login look at the shape of the payload first: a request
\* whose email or password is missing or empty is answered 400, and
\* Register persists no record for it.
EmptyCredentialsAreBadRequests ==
    \A e \in Emails, pw \in Passwords, role \in RequestRoles,
       iv \in IVs, salt \in Salts :
        (e = <<>> \/ pw = <<>>) =>
            LET r == Register(users, now, NewObjectID(nextId),
                              [ok |-> TRUE, email |-> e, password |-> pw,
                               role |-> role], "none", iv, salt)
                l == Login(users, now, Credentials(e, pw), "none")
            IN  /\ r.resp.status = StatusBadRequest
                /\ r.users = users
                /\ l.status = StatusBadRequest

\* The stores that a successful Register or AdminRegister of this email
\* leaves, each with the place of the record written.
KeyInserts(e) ==
    {[users |-> r.users, at |-> Len(r.users)] :
        r \in {w \in {Register(users, now, NewObjectID(nextId),
                                Credentials(e, <<112>>), "none", iv, salt) :
                           iv \in IVs, salt \in Salts}
                      \cup {AdminRegister(users, now, NewObjectID(nextId),
                                           Credentials(e, <<112>>), "none", iv,
                                           salt) :
                               iv \in IVs, salt \in Salts} :
                  w.resp.status = StatusOK}}

\* The place of the record that a token was issued for; 0 if it is gone.
Holder(h) == FindOneById(users, ObjectIDFromHex(h.cred.claims.userID).id)

\* The stores that a successful UpdateUserProfile to this email leaves, in
\* the user-service and in the monolith, for the holder of a valid token.
KeyUpdatesBy(h, e) ==
    {[users |-> r.users, at |-> Holder(h)] :
        r \in {w \in {UpdateUserProfile(users, now, UserServiceCtx(h, now),
                           [ok |-> TRUE, email |-> e], "none", iv) : iv \in IVs}
                      \cup {MonolithUpdateUserProfile(users, now,
                                MonolithCtx(h, now),
                                [ok |-> TRUE, email |-> e, password |-> <<>>],
                                "none", iv, salt) : iv \in IVs, salt \in Salts} :
                  w.resp.status = StatusOK}}

\* Every store that a successful write of the lookup key for this email
\* leaves.
KeyWrites(e) ==
    KeyInserts(e)
    \cup UNION {KeyUpdatesBy(h, e) :
                  h \in {g \in ValidHeaders(now) : g.bearer = 1 /\ Holder(g) # 0}}

\* C19: one derivation of the lookup key is applied throughout: for one
\* email, Register, AdminRegister and UpdateUserProfile of the user-service
\* and of the monolith write the same key, and the operations that query by
\* it (the existence check of Register, Login and AdminLogin) find the
\* record under the key that each of those writes.
LookupKeyIsDerivedUniformly ==
    \A e \in Emails \ {<<>>} :
        /\ Cardinality({w.users[w.at].email_hash : w \in KeyWrites(e)}) <= 1
        /\ \A w \in KeyWrites(e) :
               /\ RegisterCheck(w.users, Credentials(e, <<112>>), "none")
                      .resp.status = StatusConflict
               /\ Login(w.users, now, Credentials(e, <<112>>), "none").calls
                      = <<"FindOne">>
               /\ FindOneByEmailHash(w.users, e) # 0

\* A password one byte longer than bcrypt accepts.
TooLongPassword == [i \in 1..(BcryptMaxLen + 1) |-> 112]

\* The collection with the stored email of record i replaced by a string
\* that is no ciphertext ("!").
WithUnreadableEmail(us, i) == [us EXCEPT ![i].email = <<33>>]

\* The handler answered 500 and returned no token.
Internal(resp) ==
    /\ resp.status = StatusInternalServerError
    /\ resp.token = NoToken

\* C20: in Register, AdminRegister, Login and AdminLogin, when the lookup
\* fails with an error other than "no document", or the insert, the password
\* hashing, the email encryption, the email decryption or the token signing
\* fails, the answer is 500, no record is inserted and no token is returned.
FailuresAreInternalErrors ==
    \A e \in Emails, pw \in Passwords, iv \in IVs, salt \in Salts :
        LET req == Credentials(e, pw)
            oid == NewObjectID(nextId)
            i == FindOneByEmailHash(users, e)
        IN  /\ \A f \in RegisterFaults \ {"none"} :
                   LET r == Register(users, now, oid, req, f, iv, salt)
                       a == AdminRegister(users, now, oid, req, f, iv, salt)
                   IN  (f = "find" \/ ~Stored(e)) =>
                           /\ Internal(r.resp) /\ r.users = users
                           /\ Internal(a.resp) /\ a.users = users
            /\ ~Stored(e) =>
                   LET long == Credentials(e, TooLongPassword)
                       r == Register(users, now, oid, long, "none", iv, salt)
                       a == AdminRegister(users, now, oid, long, "none", iv, salt)
                   IN  /\ Internal(r.resp) /\ r.users = users
                       /\ Internal(a.resp) /\ a.users = users
            /\ Internal(Login(users, now, req, "find"))
            /\ Internal(AdminLogin(users, now, req, "find"))
            /\ Login(users, now, req, "none").status = StatusOK =>
                   /\ \A f \in {"decrypt", "sign"} :
                          Internal(Login(users, now, req, f))
                   /\ Internal(Login(WithUnreadableEmail(users, i), now, req,
                                      "none"))
            /\ AdminLogin(users, now, req, "none").status = StatusOK =>
                   /\ \A f \in {"decrypt", "sign"} :
                          Internal(AdminLogin(users, now, req, f))
                   /\ Internal(AdminLogin(WithUnreadableEmail(users, i), now,
                                           req, "none"))

\* An admin's login has just failed with 500 although the account is
\* stored and a login with its credentials succeeds when no call fails.
FailedAdminLoginSeen ==
    /\ last = [op |-> "AdminLogin", status |-> StatusInternalServerError]
    /\ \E e \in Emails, pw \in Passwords :
           AdminLogin(users, now, Credentials(e, pw), "none").status = StatusOK

\* Role values that are neither user nor admin: the empty string and "root".
BadRoles == {"", "root"}

\* The handler answered 400 without calling the store and left the
\* collection as it was.
RejectedBeforeTheStore(r) ==
    /\ r.resp.status = StatusBadRequest
    /\ r.resp.calls = <<>>
    /\ r.users = users

\* C21: UpdateUserRole with a role other than user or admin (the empty
\* string included) answers 400 before any store call and leaves every
\* record unchanged, in the admin-service for every id in the path and in
\* the monolith for every caller the handler's own admin check lets through;
\* a caller it turns away changes nothing either.
BadRolesAreRejectedBeforeTheStore ==
    \A id \in IdStrings, role \in BadRoles, fault \in {"none", "update"} :
        /\ RejectedBeforeTheStore(
               UpdateUserRole(users, now, id, [ok |-> TRUE, role |-> role],
                              fault))
        /\ \A h \in Headers(Held) :
               LET req == [ok |-> TRUE, user_id |-> id, role |-> role]
                   r == MonolithUpdateUserRole(users, now, MonolithCtx(h, now),
                                               req, fault)
                   a == AdminServiceRoute(users, h, now, "UpdateUserRole",
                            UpdateUserRole(users, now, id,
                                           [ok |-> TRUE, role |-> role], fault))
               IN  /\ MonolithAdmits(h, now) => RejectedBeforeTheStore(r)
                   /\ MonolithJWTAuthMiddleware(h, now).pass =>
                          r.users = users /\ r.resp.calls = <<>>
                   /\ AdminServiceAdmits(h, now) =>
                          RejectedBeforeTheStore(a)
                   /\ a.users = users

\* A role update asked for with an admin's token has just been answered 400
\* while a record that it could have changed is stored.
RejectedRoleUpdateSeen ==
    /\ last.op \in {"UpdateUserRole", "MonolithUpdateUserRole"}
    /\ last.status = StatusBadRequest
    /\ Len(users) > 0
    /\ \E i \in issued : i.token.claims.role = "admin"

\* string(hashedPassword): the stored hash as the text a body would carry,
\* "$2a$", the cost, the salt and the digest bytes.
HashText(hash) ==
    <<36, 50, 97, 36, hash.cost, 36, hash.salt>>
    \o [k \in 1..Len(hash.digest[4]) |-> 255 - hash.digest[4][k]]

\* Whether the non-empty text s occurs inside the text t.
Within(s, t) ==
    \E k \in 1..(Len(t) - Len(s) + 1) : SubSeq(t, k, k + Len(s) - 1) = s

\* What must not leave the service: the hash text of every record of us, and
\* the password of the request when it has one.
Secrets(us, password) ==
    {HashText(us[k].password) : k \in 1..Len(us)}
    \cup (IF password = <<>> THEN {} ELSE {password})

\* The texts a response body carries besides its fixed message and the role:
\* the identity and email claims of its token, and the id and email of each
\* user it lists.
TextsOf(resp) ==
    {resp.token.claims.userID, resp.token.claims.email}
    \cup {resp.data[k].id : k \in 1..Len(resp.data)}
    \cup {resp.data[k].email : k \in 1..Len(resp.data)}

\* The body and the token have the fields the code gives them and none of
\* their texts holds one of the secrets.
Hides(resp, secrets) ==
    /\ DOMAIN resp.token.claims = {"userID", "email", "role", "exp"}
    /\ \A k \in 1..Len(resp.data) :
           DOMAIN resp.data[k] = {"id", "email", "role", "created_at", "updated_at"}
    /\ resp.role \in {"", "user", "admin"}
    /\ \A s \in secrets, t \in TextsOf(resp) : ~Within(s, t)

\* The same for the result r of a handler that got a request with this
\* password: the hashes stored before and after it are both secrets.
Discreet(r, password) ==
    Hides(r.resp, Secrets(users, password) \cup Secrets(r.users, password))

\* C22: no response body of any endpoint (Register, AdminRegister, Login,
\* AdminLogin, GetUserProfile, ListUsers and the update and delete
\* acknowledgments, in the services and in the monolith) and no claim of a
\* token it returns contains the password hash of a stored record or the
\* password of the request.
PasswordsNeverLeaveTheStore ==
    /\ \A req \in RegisterBodies, f \in RegisterFaults, iv \in IVs,
          salt \in Salts :
           /\ Discreet(Register(users, now, NewObjectID(nextId), req, f, iv,
                                 salt), req.password)
           /\ Discreet(AdminRegister(users, now, NewObjectID(nextId), req, f,
                                      iv, salt), req.password)
    /\ \A req \in CredentialBodies, f \in LoginFaults :
           /\ Hides(Login(users, now, req, f), Secrets(users, req.password))
           /\ Hides(AdminLogin(users, now, req, f),
                    Secrets(users, req.password))
    /\ \A h \in GoodForm(Held) :
           /\ \A f \in {"none", "find", "count", "decode"} :
                  /\ Discreet(UserServiceRoute(users, h, now, "GetUserProfile",
                         GetUserProfile(users, UserServiceCtx(h, now), f)), <<>>)
                  /\ Discreet(AdminServiceRoute(users, h, now, "ListUsers",
                         ListUsers(users, AdminServiceCtx(h, now), f)), <<>>)
                  /\ Discreet(MonolithRoute(users, h, now, "GetUserProfile",
                         MonolithGetUserProfile(users, MonolithCtx(h, now), f)),
                         <<>>)
                  /\ \A page \in ClientPages, limit \in ClientLimits,
                        sorted \in SortNewestFirst(users) :
                         Discreet(MonolithRoute(users, h, now, "ListUsers",
                             MonolithListUsers(users, MonolithCtx(h, now), page,
                                               limit, f, sorted)), <<>>)
           /\ \A req \in ProfileBodies, iv \in IVs :
                  Discreet(UserServiceRoute(users, h, now, "UpdateUserProfile",
                      UpdateUserProfile(users, now, UserServiceCtx(h, now), req,
                                        "none", iv)), <<>>)
           /\ \A req \in MonolithProfileBodies, iv \in IVs, salt \in Salts :
                  Discreet(MonolithRoute(users, h, now, "UpdateUserProfile",
                      MonolithUpdateUserProfile(users, now, MonolithCtx(h, now),
                                                req, "none", iv, salt)),
                      req.password)
           /\ \A id \in IdStrings :
                  /\ Discreet(AdminServiceRoute(users, h, now, "DeleteUser",
                         DeleteUser(users, id, "none")), <<>>)
                  /\ Discreet(MonolithRoute(users, h, now, "DeleteUser",
                         MonolithDeleteUser(users, MonolithCtx(h, now),
                             [ok |-> TRUE, user_id |-> id], "none")), <<>>)
                  /\ \A role \in {"user", "admin"} :
                         /\ Discreet(AdminServiceRoute(users, h, now,
                                "UpdateUserRole",
                                UpdateUserRole(users, now, id,
                                    [ok |-> TRUE, role |-> role], "none")), <<>>)
                         /\ Discreet(MonolithRoute(users, h, now,
                                "UpdateUserRole",
                                MonolithUpdateUserRole(users, now,
                                    MonolithCtx(h, now),
                                    [ok |-> TRUE, user_id |-> id, role |-> role],
                                    "none")), <<>>)

\* Users have just been listed for an admin while a record with the hash of
\* the password "p" is stored.
HashedRecordListedSeen ==
    /\ last.op \in {"ListUsers", "MonolithListUsers"}
    /\ last.status = StatusOK
    /\ \E k \in 1..Len(users) : CompareHashAndPassword(users[k].password, <<112>>)

\* The records of a collection.
Records(us) == {us[k] : k \in 1..Len(us)}

\* Collection after is collection before without the one record of this id.
RemovedExactly(before, after, id) ==
    /\ Len(after) = Len(before) - 1
    /\ Records(after) = {u \in Records(before) : u.id # id}
    /\ \A j, k \in 1..Len(after) :
           j < k => \E a, b \in 1..Len(before) :
                       a < b /\ before[a] = after[j] /\ before[b] = after[k]

\* What a delete of a well-formed id must do: r is its result, again the
\* result of the same delete on what r left.
DeletesExactly(r, again, id) ==
    IF \E u \in Records(users) : u.id = id
    THEN /\ r.resp.status = StatusOK
         /\ RemovedExactly(users, r.users, id)
         /\ again.resp.status = StatusNotFound
         /\ again.users = r.users
    ELSE /\ r.resp.status = StatusNotFound
         /\ r.users = users

\* C23: DeleteUser with a well-formed id removes exactly the record with
\* that id and leaves every other record as it was; when no record has that
\* id it answers 404 and changes nothing, so the same delete repeated
\* answers 404.  In the admin-service and, for an admin, in the monolith.
DeleteRemovesExactlyOneRecord ==
    \A id \in IdStrings :
        LET o == ObjectIDFromHex(id)
            r == DeleteUser(users, id, "none")
        IN  ~o.err =>
                /\ DeletesExactly(r, DeleteUser(r.users, id, "none"), o.id)
                /\ \A h \in GoodForm(Held) :
                       MonolithAdmits(h, now) =>
                           LET c == MonolithCtx(h, now)
                               req == [ok |-> TRUE, user_id |-> id]
                               d == MonolithDeleteUser(users, c, req, "none")
                           IN  DeletesExactly(d,
                                   MonolithDeleteUser(d.users, c, req, "none"),
                                   o.id)

\* A delete has just been answered 404 after a record was removed, another
\* record is still stored, and an admin's token is held.
RepeatedDeleteSeen ==
    /\ last.op \in {"DeleteUser", "MonolithDeleteUser"}
    /\ last.status = StatusNotFound
    /\ Len(users) > 0
    /\ nextId > Len(users) + 1
    /\ \E i \in issued : i.token.claims.role = "admin"

\* C24: when operations run one at a time, after any sequence of Register,
\* AdminRegister, UpdateUserProfile and DeleteUser calls no two stored
\* records share one email lookup key.
LookupKeysStayUnique ==
    \A j, k \in 1..Len(users) :
        j # k => users[j].email_hash # users[k].email_hash

\* What the handlers' type assertions need: userID is there and is the hex
\* of an ObjectID, role is there and is one of the two roles.
Principal(userID, role) ==
    /\ userID # <<>>
    /\ ~ObjectIDFromHex(userID).err
    /\ role \in {"user", "admin"}

\* C25: every request a gate accepts carries a token that Login or
\* AdminLogin issued, and reaches its handler with the identity and the role
\* present in the context (in the user-service also the encryption key), so
\* that no claim extraction behind the gate fails; every other request is
\* answered 401 at the gate and reaches no handler.
AcceptedRequestsCarryAPrincipal ==
    \A h \in Headers(Held \cup Issuable) :
        LET g == JWTAuthMiddleware(h, now)
            m == MonolithJWTAuthMiddleware(h, now)
            u == UserServiceRoute(users, h, now, "GetUserProfile",
                     GetUserProfile(users, g.ctx, "none"))
            ls == {MonolithRoute(users, h, now, "ListUsers",
                       MonolithListUsers(users, m.ctx, <<>>, <<>>, "none",
                                         sorted)) :
                      sorted \in SortNewestFirst(users)}
        IN  /\ g.pass =>
                   /\ h.cred \in Held \cup Issuable
                   /\ Principal(g.ctx.userID, g.ctx.role)
                   /\ Len(g.ctx.encryptionKey) = KeyLen
                   /\ u.trace = <<"JWTAuthMiddleware", "GetUserProfile">>
            /\ ~g.pass =>
                   /\ g.resp.status = StatusUnauthorized
                   /\ u.trace = <<"JWTAuthMiddleware">>
            /\ m.pass =>
                   /\ h.cred \in Held \cup Issuable
                   /\ Principal(m.ctx.claims.userID, m.ctx.claims.role)
                   /\ \A l \in ls :
                          l.trace = <<"JWTAuthMiddleware", "ListUsers">>
            /\ ~m.pass =>
                   /\ m.resp.status = StatusUnauthorized
                   /\ \A l \in ls : l.trace = <<"JWTAuthMiddleware">>

\* A profile update behind a gate has just succeeded for the holder of an
\* issued token.
GatedUpdateSeen ==
    /\ last.op \in {"UpdateUserProfile", "MonolithUpdateUserProfile"}
    /\ last.status = StatusOK
    /\ \E i \in issued : Principal(i.token.claims.userID, i.token.claims.role)

\* Whether a record of us other than the one at i has this lookup key.
HeldByAnother(us, i, key) ==
    \E k \in 1..Len(us) : k # i /\ us[k].email_hash = key

\* The logins that follow a successful user-service UpdateUserProfile of the
\* caller of header h to the email e: the login with the new email, and the
\* login with the previous email when the email has changed.
LoginFollowsUpdate(h, e, iv) ==
    LET c == UserServiceCtx(h, now)
        i == FindOneById(users, ObjectIDFromHex(c.userID).id)
        r == UpdateUserProfile(users, now, c, [ok |-> TRUE, email |-> e],
                               "none", iv)
        old == Decrypt(users[i].email, Cfg.EncryptionKey).out
    IN  (JWTAuthMiddleware(h, now).pass /\ r.resp.status = StatusOK) =>
            \A pw \in Passwords :
                CompareHashAndPassword(users[i].password, pw) =>
                    LET l == Login(r.users, now, Credentials(e, pw), "none")
                        p == Login(r.users, now, Credentials(old, pw), "none")
                    IN  /\ l.status = StatusOK
                        /\ l.token.claims.userID = Hex(users[i].id)
                        /\ l.token.claims.role = users[i].role
                        /\ l.role = users[i].role
                        /\ (~HeldByAnother(r.users, i, old) /\ e # old) =>
                               p.status = StatusUnauthorized

\* C26: in the user-service, after a successful UpdateUserProfile that sets
\* a user's email to e, Login with e and that user's password succeeds and
\* returns that user's identity and role, and Login with the previous email
\* (another one than e) answers 401 unless another record holds that email.
NewEmailLogsTheUserIn ==
    \A h \in GoodForm(Held), e \in Emails, iv \in IVs :
        LoginFollowsUpdate(h, e, iv)

\* What an UpdateUserRole of the id string id to the role of req may have
\* done to the collection when r is its result: on success the record with
\* that id has the new role and the time of the update and is otherwise as
\* it was, and every other record is as it was; on any other answer
\* nothing has changed.
OnlyTheRoleChanged(r, id, role) ==
    LET i == FindOneById(users, ObjectIDFromHex(id).id)
    IN  IF r.resp.status = StatusOK
        THEN /\ i # 0
             /\ Len(r.users) = Len(users)
             /\ r.users[i].role = role
             /\ r.users[i].updated_at = now
             /\ r.users[i].id = users[i].id
             /\ r.users[i].email_hash = users[i].email_hash
             /\ r.users[i].email = users[i].email
             /\ r.users[i].password = users[i].password
             /\ r.users[i].created_at = users[i].created_at
             /\ DOMAIN r.users[i] = DOMAIN users[i]
             /\ \A k \in 1..Len(users) : k # i => r.users[k] = users[k]
        ELSE r.users = users

\* C27: a successful UpdateUserRole changes only the role and updated_at of
\* the record with that id; its identity, lookup key, email ciphertext,
\* password hash and created_at, and every other record, stay as they were;
\* an UpdateUserRole answered 400 or 404 (or 500) changes nothing.  In the
\* admin-service and, for an admin, in the monolith.
RoleUpdateChangesOnlyTheRole ==
    \A id \in IdStrings, fault \in {"none", "update"} :
        /\ \A req \in RoleBodies :
               LET r == UpdateUserRole(users, now, id, req, fault)
               IN  /\ OnlyTheRoleChanged(r, id, req.role)
                   /\ r.resp.status \in {StatusOK, StatusBadRequest,
                                          StatusNotFound,
                                          StatusInternalServerError}
        /\ \A h \in GoodForm(Held), role \in {"", "user", "admin", "root"} :
               MonolithJWTAuthMiddleware(h, now).pass =>
                   OnlyTheRoleChanged(
                       MonolithUpdateUserRole(users, now, MonolithCtx(h, now),
                           [ok |-> TRUE, user_id |-> id, role |-> role], fault),
                       id, role)

\* A role update has just succeeded, later than the record it changed was
\* created, and another record is stored beside it.
LaterRoleUpdateSeen ==
    /\ last = [op |-> "MonolithUpdateUserRole", status |-> StatusOK]
    /\ Len(users) > 1
    /\ \E k \in 1..Len(users) :
           users[k].updated_at = now /\ users[k].created_at < now

\* The operations that only read: the logins, the profile reads and the
\* listings, of the services and of the monolith.
ReadOps ==
    {"Login", "AdminLogin", "GetUserProfile", "ListUsers",
     "MonolithGetUserProfile", "MonolithListUsers"}

\* The store calls that read.
ReadCalls == {"FindOne", "Find", "CountDocuments"}

\* The answer was made with reading calls only.
OnlyReads(resp) ==
    \A k \in 1..Len(resp.calls) : resp.calls[k] \in ReadCalls

\* Every request of a reading operation, whatever its outcome, and every
\* request that a gate turns away, has made no writing call and leaves the
\* collection as it is.
ReadersOnlyRead ==
    /\ \A req \in CredentialBodies, f \in LoginFaults :
           /\ OnlyReads(Login(users, now, req, f))
           /\ OnlyReads(AdminLogin(users, now, req, f))
    /\ \A h \in Headers(Held), f \in {"none", "find", "count", "decode"} :
           LET g == UserServiceRoute(users, h, now, "GetUserProfile",
                        GetUserProfile(users, UserServiceCtx(h, now), f))
               l == AdminServiceRoute(users, h, now, "ListUsers",
                        ListUsers(users, AdminServiceCtx(h, now), f))
               p == MonolithRoute(users, h, now, "GetUserProfile",
                        MonolithGetUserProfile(users, MonolithCtx(h, now), f))
               w == UserServiceRoute(users, h, now, "UpdateUserProfile",
                        UpdateUserProfile(users, now, UserServiceCtx(h, now),
                            [ok |-> TRUE, email |-> <<97>>], "none",
                            CHOOSE iv \in IVs : TRUE))
           IN  /\ g.users = users /\ OnlyReads(g.resp)
               /\ l.users = users /\ OnlyReads(l.resp)
               /\ p.users = users /\ OnlyReads(p.resp)
               /\ \A page \in ClientPages \cup {MaxIntDigits},
                     limit \in ClientLimits,
                     sorted \in SortNewestFirst(users) :
                      LET q == MonolithRoute(users, h, now, "ListUsers",
                                   MonolithListUsers(users, MonolithCtx(h, now),
                                                     page, limit, f, sorted))
                      IN  q.users = users /\ OnlyReads(q.resp)
               /\ ~JWTAuthMiddleware(h, now).pass =>
                      w.users = users /\ w.resp.calls = <<>>

\* C28: Login, AdminLogin, GetUserProfile, ListUsers and the gates never
\* modify the user store: for every request and every outcome the stored
\* records and all their fields are the same before and after, and in every
\* run a step of one of these operations leaves the collection unchanged.
ReadOperationsLeaveTheStore ==
    /\ []ReadersOnlyRead
    /\ [][last'.op \in ReadOps => users' = users]_vars

\* An admin has just logged in while two records are stored.
AdminLoginAmongRecordsSeen ==
    /\ last = [op |-> "AdminLogin", status |-> StatusOK]
    /\ Len(users) > 1

\* Whether the string left of a header after one "Bearer " is taken off
\* verifies under this secret.
Verifies(h, secret) ==
    LET rest == IF h.bearer > 0 THEN h.bearer - 1 ELSE 0
    IN  rest = 0 /\ ParseValid(h.cred, secret, now)

\* C29: the gates take the Authorization header with one optional leading
\* "Bearer " removed as the token: a valid token without the prefix is
\* accepted exactly like the same token with it, with the same context, and
\* whether a header is accepted depends only on whether the remaining
\* string verifies.  Every profile request answered so far was decided so.
PrefixIsOptional ==
    /\ \A c \in Held \cup {ForgedToken, NoneAlgToken, GarbageToken, EmptyToken} :
           LET bare == [bearer |-> 0, cred |-> c]
               full == [bearer |-> 1, cred |-> c]
           IN  /\ JWTAuthMiddleware(bare, now).pass
                      = JWTAuthMiddleware(full, now).pass
               /\ JWTAuthMiddleware(bare, now).ctx
                      = JWTAuthMiddleware(full, now).ctx
               /\ MonolithJWTAuthMiddleware(bare, now).pass
                      = MonolithJWTAuthMiddleware(full, now).pass
               /\ MonolithJWTAuthMiddleware(bare, now).ctx
                      = MonolithJWTAuthMiddleware(full, now).ctx
               /\ c \in Held => JWTAuthMiddleware(bare, now).pass
    /\ \A h \in Headers(Held) :
           /\ JWTAuthMiddleware(h, now).pass = Verifies(h, Cfg.JWTSecret)
           /\ MonolithJWTAuthMiddleware(h, now).pass
                  = Verifies(h, MonolithCfg.JWTSecret)
    /\ \A p \in Procs :
           pending[p].stage = "answered" =>
               (pending[p].status # StatusUnauthorized)
                   = Verifies(pending[p].req, Cfg.JWTSecret)

\* A connection sent a held token without the prefix and got the profile.
BareTokenServedSeen ==
    \E p \in Procs :
        /\ pending[p].stage = "answered"
        /\ pending[p].req.bearer = 0
        /\ pending[p].req.cred \in Held
        /\ pending[p].status = StatusOK

\* The ceiling of a / b for a >= 0 and b > 0.
Ceiling(a, b) == IF a % b = 0 THEN a \div b ELSE a \div b + 1

\* C30: in the monolith's ListUsers, for every page and limit query value
\* the effective page is at least 1 (1 when absent, not a number or not
\* positive) and the effective limit is within 1..100 (10 when absent, not a
\* number, not positive or above 100); the skip passed to the store is
\* (page - 1) * limit and is never negative, and total_pages is the ceiling
\* of total / limit.
PagingStaysInRange ==
    \A page \in PageQueries, limit \in LimitQueries :
        LET a == Atoi(page)
            b == Atoi(limit)
            pg == PageWord(page)
            lim == LimitOf(limit)
            skip == Skip(page, limit)
        IN  /\ pg # <<0, 0, 0, 0>> /\ pg[4] < 32768
            /\ (page = <<>> \/ a.err \/ a.neg \/ a.w = <<0, 0, 0, 0>>)
                   => PageOf(page) = 1
            /\ lim \in 1..100
            /\ (limit = <<>> \/ b.err \/ b.wide \/ b.n <= 0 \/ b.n > 100)
                   => lim = 10
            /\ ~skip.neg
            /\ Narrow(pg) => skip.narrow /\ skip.n = (PageOf(page) - 1) * lim
            /\ \A h \in GoodForm(Held), sorted \in SortNewestFirst(users) :
                   LET r == MonolithListUsers(users, MonolithCtx(h, now), page,
                                              limit, "none", sorted)
                   IN  (MonolithAdmits(h, now) /\ r.resp.status = StatusOK) =>
                           /\ r.resp.meta.total = Len(users)
                           /\ r.resp.meta.limit = lim
                           /\ r.resp.meta.total_pages = Ceiling(Len(users), lim)

=============================================================================
